---- MODULE Spec2Model ----
(***************************************************************************)
(* Ledger and settlement subsystem of suban-ai-backend.                    *)
(*                                                                         *)
(* Token amounts, prices and costs are JavaScript numbers: IEEE 754        *)
(* doubles, computed with the rounding of every operation the source       *)
(* makes, in the order in which it makes them.  Amounts on chain (base     *)
(* units), timestamps and counters are integers.                           *)
(*                                                                         *)
(* Every await of the source that reaches the store or the chain is one    *)
(* step of the request that makes it; the synchronous code that follows    *)
(* the await belongs to the same step.                                     *)
(***************************************************************************)
EXTENDS Integers, Sequences, FiniteSets, TLC

\* ------------------------------------------------------------------ bounds
MaxOps == 3
MaxSeqOps == 5
MaxRuns == 2
MaxSettleOps == 3
MaxSamples == 1
MaxCache == 3
MaxTests == 1
MaxQueries == 1
MaxLost == 1
MaxArrivals == 1

RECURSIVE Pow10(_)
Pow10(n) == IF n = 0 THEN 1 ELSE 10 * Pow10(n - 1)

\* ------------------------------------------------------ JavaScript numbers
\* A number of the program is an IEEE 754 double: the record
\* [neg, e, hi, lo] is (-1)^neg * (hi * 2^26 + lo) * 2^e with a 53-bit
\* mantissa, hi in 2^26 .. 2^27 - 1 and lo < 2^26; zero is hi = lo = e = 0.
\* Every operation rounds its exact result to the nearest double, ties to
\* even.  Infinities, NaN, subnormals and the sign of zero are left out: the
\* amounts of the ledger stay far from them.
Pow2 == [n \in 0..30 |-> 2^n]

\* the element of a singleton: binds a value that is computed once
The(S) == CHOOSE x \in S : TRUE

Zero == [neg |-> FALSE, e |-> 0, hi |-> 0, lo |-> 0]

\* number of bits of n, 0 < n < 2^31
BitLen(n) == IF n >= Pow2[30] THEN 31 ELSE CHOOSE k \in 1..30 : n < Pow2[k]

\* the mantissa hi * 2^26 + lo, plus one when the rounding goes up
Rounded(neg, e, hi, lo, up) ==
  IF ~up THEN [neg |-> neg, e |-> e, hi |-> hi, lo |-> lo]
  ELSE IF lo + 1 < Pow2[26] THEN [neg |-> neg, e |-> e, hi |-> hi, lo |-> lo + 1]
  ELSE IF hi + 1 < Pow2[27] THEN [neg |-> neg, e |-> e, hi |-> hi + 1, lo |-> 0]
  ELSE [neg |-> neg, e |-> e + 1, hi |-> Pow2[26], lo |-> 0]

\* n with its lowest bit set when bits were lost below it
Sticky(n, lost) == IF lost /\ n % 2 = 0 THEN n + 1 ELSE n

\* H * 2^29 + L shifted right by d bits, the bits shifted out kept as a sticky bit
ShiftRight(H, L, d) ==
  IF d = 0 THEN <<H, L>>
  ELSE IF d <= 28
    THEN <<H \div Pow2[d],
           Sticky(L \div Pow2[d] + (H % Pow2[d]) * Pow2[29 - d], L % Pow2[d] # 0)>>
  ELSE IF d <= 56
    THEN <<0, Sticky(H \div Pow2[d - 29], L # 0 \/ H % Pow2[d - 29] # 0)>>
  ELSE <<0, 1>>

\* H * 2^29 + L > 0 shifted left until H has 27 bits: <<H, L, shift>>
Normalized(H, L) ==
  IF H >= Pow2[26] THEN <<H, L, 0>>
  ELSE IF H > 0
    THEN The({<<H * Pow2[z] + L \div Pow2[29 - z], (L % Pow2[29 - z]) * Pow2[z], z>> :
                z \in {27 - BitLen(H)}})
  ELSE The({<<(L * Pow2[z]) \div 4, ((L * Pow2[z]) % 4) * Pow2[27], z + 27>> :
              z \in {29 - BitLen(L)}})

\* (H * 2^29 + L) * 2^(e - 3), H of 27 bits, rounded to 53 bits
RoundExt(neg, e, m) ==
  Rounded(neg, e, m[1], m[2] \div 8,
          m[2] % 8 > 4 \/ (m[2] % 8 = 4 /\ (m[2] \div 8) % 2 = 1))

\* |x| < |y|
MagLess(x, y) ==
  IF y.hi = 0 THEN FALSE
  ELSE IF x.hi = 0 THEN TRUE
  ELSE IF x.e # y.e THEN x.e < y.e
  ELSE IF x.hi # y.hi THEN x.hi < y.hi
  ELSE x.lo < y.lo

\* |x| + |y| for x.e >= y.e, with the sign neg
AddMag(neg, x, y) ==
  The({The({IF m[1] >= Pow2[27]
              THEN RoundExt(neg, x.e + 1,
                            <<m[1] \div 2, Sticky(m[2] \div 2 + (m[1] % 2) * Pow2[28], m[2] % 2 = 1)>>)
              ELSE RoundExt(neg, x.e, m) :
            m \in {<<x.hi + s[1] + (x.lo * 8 + s[2]) \div Pow2[29],
                     (x.lo * 8 + s[2]) % Pow2[29]>>}}) :
       s \in {ShiftRight(y.hi, y.lo * 8, x.e - y.e)}})

\* |x| - |y| for |x| > |y|, with the sign neg
SubMag(neg, x, y) ==
  The({The({The({RoundExt(neg, x.e - n[3], n) : n \in {Normalized(m[1], m[2])}}) :
            m \in {IF x.lo * 8 >= s[2]
                     THEN <<x.hi - s[1], x.lo * 8 - s[2]>>
                     ELSE <<x.hi - s[1] - 1, x.lo * 8 - s[2] + Pow2[29]>>}}) :
       s \in {ShiftRight(y.hi, y.lo * 8, x.e - y.e)}})

Neg(x) == IF x.hi = 0 THEN x ELSE [x EXCEPT !.neg = ~@]

Abs(x) == [x EXCEPT !.neg = FALSE]

AddValues(x, y) ==
  IF y.hi = 0 THEN x
  ELSE IF x.hi = 0 THEN y
  ELSE IF x.neg = y.neg
    THEN IF x.e >= y.e THEN AddMag(x.neg, x, y) ELSE AddMag(x.neg, y, x)
  ELSE IF MagLess(y, x) THEN SubMag(x.neg, x, y)
  ELSE IF MagLess(x, y) THEN SubMag(y.neg, y, x)
  ELSE Zero

\* x + y
Add(x, y) == The({AddValues(p[1], p[2]) : p \in {<<x, y>>}})

\* x - y
Sub(x, y) == The({AddValues(p[1], Neg(p[2])) : p \in {<<x, y>>}})

LessValues(x, y) ==
  IF x.neg /\ ~y.neg THEN TRUE
  ELSE IF ~x.neg /\ y.neg THEN FALSE
  ELSE IF x.neg THEN MagLess(y, x)
  ELSE MagLess(x, y)

\* x < y
Less(x, y) == \E p \in {<<x, y>>} : LessValues(p[1], p[2])

\* x <= y
LessEq(x, y) == ~Less(y, x)

\* Math.max(x, y)
Max(x, y) == IF Less(x, y) THEN y ELSE x

\* Math.min(x, y)
Min(x, y) == IF Less(y, x) THEN y ELSE x

\* the integer n as a number, |n| < 2^31
Num(n) ==
  IF n = 0 THEN Zero
  ELSE The({IF b <= 27
              THEN [neg |-> n < 0, e |-> b - 53, hi |-> a[1] * Pow2[27 - b], lo |-> 0]
              ELSE [neg |-> n < 0, e |-> b - 53, hi |-> a[1] \div Pow2[b - 27],
                    lo |-> (a[1] % Pow2[b - 27]) * Pow2[53 - b]] :
            a \in {<<IF n < 0 THEN -n ELSE n>>}, b \in {BitLen(IF n < 0 THEN -n ELSE n)}})

\* the four 14-bit limbs of a mantissa, lowest first
Limbs(x) ==
  <<x.lo % Pow2[14], x.lo \div Pow2[14] + (x.hi % 4) * Pow2[12],
    (x.hi \div 4) % Pow2[14], x.hi \div Pow2[16]>>

\* the eight 14-bit limbs of the product of two mantissas
Product(a, b) ==
  The({The({The({The({The({The({The({
    <<t0 % Pow2[14], t1 % Pow2[14], t2 % Pow2[14], t3 % Pow2[14],
      t4 % Pow2[14], t5 % Pow2[14], t6 % Pow2[14], t6 \div Pow2[14]>> :
    t6 \in {a[4] * b[4] + t5 \div Pow2[14]}}) :
    t5 \in {a[3] * b[4] + a[4] * b[3] + t4 \div Pow2[14]}}) :
    t4 \in {a[2] * b[4] + a[3] * b[3] + a[4] * b[2] + t3 \div Pow2[14]}}) :
    t3 \in {a[1] * b[4] + a[2] * b[3] + a[3] * b[2] + a[4] * b[1] + t2 \div Pow2[14]}}) :
    t2 \in {a[1] * b[3] + a[2] * b[2] + a[3] * b[1] + t1 \div Pow2[14]}}) :
    t1 \in {a[1] * b[2] + a[2] * b[1] + t0 \div Pow2[14]}}) :
    t0 \in {a[1] * b[1]}})

\* the product p of two mantissas, of 42 + r + 53 bits, rounded to 53 bits
RoundProduct(neg, e, p, r) ==
  The({Rounded(neg, e + 42 + r, p[6] \div Pow2[r - 2] + p[7] * Pow2[16 - r] + p[8] * Pow2[30 - r], lo,
               /\ (p[4] \div Pow2[r - 1]) % 2 = 1
               /\ \/ p[4] % Pow2[r - 1] # 0
                  \/ p[1] + p[2] + p[3] # 0
                  \/ lo % 2 = 1) :
       lo \in {p[4] \div Pow2[r] + p[5] * Pow2[14 - r] + (p[6] % Pow2[r - 2]) * Pow2[28 - r]}})

MulValues(x, y) ==
  IF x.hi = 0 \/ y.hi = 0 THEN Zero
  ELSE The({RoundProduct(x.neg # y.neg, x.e + y.e, p, IF p[8] >= Pow2[7] THEN 11 ELSE 10) :
            p \in {Product(Limbs(x), Limbs(y))}})

\* x * y
Mul(x, y) == The({MulValues(p[1], p[2]) : p \in {<<x, y>>}})

\* one step of the long division by the mantissa <<yh, yl>>: s is
\* <<remainder high, remainder low, quotient high, quotient low>>
DivStep(s, yh, yl) ==
  The({<<2 * t[1] + (2 * t[2]) \div Pow2[26], (2 * t[2]) % Pow2[26],
         2 * s[3] + (2 * s[4] + t[3]) \div Pow2[28], (2 * s[4] + t[3]) % Pow2[28]>> :
       t \in {IF s[1] > yh \/ (s[1] = yh /\ s[2] >= yl)
                THEN IF s[2] >= yl THEN <<s[1] - yh, s[2] - yl, 1>>
                     ELSE <<s[1] - yh - 1, s[2] - yl + Pow2[26], 1>>
                ELSE <<s[1], s[2], 0>>}})

RECURSIVE DivSteps(_, _, _, _)
\* n steps of the long division, one after the other
DivSteps(s, yh, yl, n) ==
  IF n = 1 THEN DivStep(s, yh, yl)
  ELSE The({DivSteps(t, yh, yl, n - n \div 2) : t \in {DivSteps(s, yh, yl, n \div 2)}})

\* the quotient q of 55 or 56 bits (d = 2 or 3 bits to drop) rounded to 53 bits
RoundQuotient(neg, e, q, d) ==
  The({Rounded(neg, e + d, IF d = 3 THEN q[3] \div 2 ELSE q[3], lo,
               \/ q[4] % Pow2[d] > Pow2[d - 1]
               \/ /\ q[4] % Pow2[d] = Pow2[d - 1]
                  /\ (q[1] # 0 \/ q[2] # 0 \/ lo % 2 = 1)) :
       lo \in {IF d = 3 THEN q[4] \div 8 + (q[3] % 2) * Pow2[25] ELSE q[4] \div 4}})

DivValues(x, y) ==
  IF x.hi = 0 THEN Zero
  ELSE The({RoundQuotient(x.neg # y.neg, x.e - y.e - 55, q, IF q[3] >= Pow2[27] THEN 3 ELSE 2) :
            q \in {DivSteps(<<x.hi, x.lo, 0, 0>>, y.hi, y.lo, 56)}})

\* x / y, y not zero
Div(x, y) == The({DivValues(p[1], p[2]) : p \in {<<x, y>>}})

\* the integer part of |x|, below 2^31
Trunc(x) ==
  IF x.hi = 0 \/ x.e <= -53 THEN 0
  ELSE IF x.e <= -26 THEN x.hi \div Pow2[-26 - x.e]
  ELSE IF x.e < 0 THEN x.hi * Pow2[26 + x.e] + x.lo \div Pow2[-x.e]
  ELSE (x.hi * Pow2[26] + x.lo) * Pow2[x.e]

\* x is an integer
IsInteger(x) ==
  IF x.hi = 0 THEN TRUE
  ELSE IF x.e <= -53 THEN FALSE
  ELSE IF x.e <= -26 THEN x.lo = 0 /\ x.hi % Pow2[-26 - x.e] = 0
  ELSE IF x.e < 0 THEN x.lo % Pow2[-x.e] = 0
  ELSE TRUE

\* Math.floor(x) as an integer, |x| < 2^31
Floor(x) ==
  IF ~x.neg THEN Trunc(x) ELSE IF IsInteger(x) THEN -Trunc(x) ELSE -Trunc(x) - 1

\* the decimal n / 10^k, as parseFloat reads it
Dec(n, k) == Div(Num(n), Num(Pow10(k)))

\* n ten-thousandths of a token
Amount(n) == Dec(n, 4)

\* c cents, in dollars
Usd(c) == Dec(c, 2)

\* --------------------------------------------------------------- constants
tolerance == Dec(1, 4)
DefaultDecimals == 9
BatchSize == 100
StatsLimit == 1000
MintDecimals == 6
thresholdTokens == Dec(5, 4)
CustodialInit == 1000
twapWindowMs == 600000
burnFloor == Dec(5, 2)
burnCeiling == Num(50)
cacheExpiryMs == 60000

\* ------------------------------------------------------------ input sets
Procs == {1, 2}
SeqProcs == {1}
Wallets == {"W1", "W2"}
TreasuryAta == "TreasuryAta"
TokenMint == "MINT"
TxIds == {"T1", "T0", "T2"}
ConfirmedIds == TxIds \cup {"T10", "T4"}
ScenarioAmounts == {Num(10)}
DEFAULT_CHAT_COST_USD == Usd(2)
LlmOutcomes == {"reply", "unavailable", "error"}
LlmCosts == {Zero, Usd(2)}
CallerAmounts == {Amount(0), Amount(1), Amount(10), Amount(11)}
SignedAmounts == CallerAmounts \cup {Neg(Amount(10))}
DebitAmounts == {Amount(3), Amount(10)}
RequestTypes == {"chat"}
UsdCosts == {Usd(2)}
UsdInputs == {Usd(0), Usd(2), Usd(7), Usd(500), Usd(600)}
BurnPrices == {Usd(3), Usd(10)}
Times == {0, twapWindowMs + 1}
Prices == {Usd(10)}
OraclePrices == {Usd(100), Usd(110), Usd(120)}
AssetDecimals == {0, 6, 9}
Shapes == {"transfer", "transferChecked", "balances", "sent"}
Signers == {<<TokenMint, "W2">>, <<"OTHER", "W2">>, <<TokenMint, "Ext">>}
ExpectedAmounts == {Amount(9), Amount(10), Amount(11), Num(1)}
Instants ==
  {0, cacheExpiryMs, cacheExpiryMs + 1, 2 * cacheExpiryMs, twapWindowMs,
   twapWindowMs + 1, 2 * twapWindowMs, 2 * twapWindowMs + 1}
Callers == {"timer", "threshold", "manual", "check"}
Thresholds == {Amount(3), Amount(8), Amount(3 * StatsLimit + 1)}
Backlogs == {2, StatsLimit + 1}
Signatures == {1, 2}
QueueSizes == {3, BatchSize + 2}
QueueOrders == {"distinct", "ties", "swapped"}
QueryLimits == {1, 2, BatchSize, StatsLimit}
LiveQueues == {0, BatchSize + 2}
MintAnswers == {"parsed", "null", "throws"}

NoDoc == [none |-> TRUE]
Null == "null"          \* an absent string
NoSignature == 0        \* an absent settlement transaction id
NoAmount == [undefined |-> TRUE]   \* an absent number (undefined / null)
NoRaw == -1             \* an absent field of a parsed instruction
NoTokenAmount == [amount |-> NoRaw, decimals |-> NoRaw]
NoPrice == [thrown |-> TRUE]       \* no price: the call threw or returned null

VARIABLES
  balances,       \* TokenBalance collection: wallet -> document or NoDoc
  usageRecords,   \* UsageRecord collection, in insertion order (_id = index)
  priceCache,     \* PriceOracleService.priceCache
  now,            \* Date.now()
  req,            \* request handlers in flight: per process its position and locals
  completed,      \* history: per wallet the amounts of the deposits and debits whose save succeeded
  ops,            \* number of requests started
  config,         \* SettlementService: which of the key, the mint and the treasury are set
  isSettling,     \* SettlementService.isSettling
  run,            \* settlement callers in flight: per caller its position and locals
  settlements,    \* the chain: settlement transactions that landed, in order
  custodial,      \* the chain: base units held by the custodial token account
  runs,           \* number of settlement calls started
  solanaConnection, \* SolanaConnectionService: the fields of the singleton
  conn,           \* callers of the connection service in flight: position and locals
  tests           \* number of testConnection calls started

ledgerVars == <<balances, usageRecords, priceCache, now, req, completed, ops>>
settleVars == <<config, isSettling, run, settlements, custodial, runs>>
connVars == <<solanaConnection, conn, tests>>
vars == <<balances, usageRecords, priceCache, now, req, completed, ops,
          config, isSettling, run, settlements, custodial, runs,
          solanaConnection, conn, tests>>

\* ------------------------------------------------------------- helpers
\* new TokenBalance({walletAddress, 0, 0, 0, []})
ZeroDoc ==
  [depositedAmount |-> Zero, consumedAmount |-> Zero, currentBalance |-> Zero,
   transactions |-> <<>>]

IdleReq ==
  [op |-> "idle", pc |-> "idle", walletAddress |-> Null, amount |-> Zero,
   txHash |-> Null, balance |-> NoDoc, credit |-> Zero, result |-> Null,
   sigs |-> <<>>, requestType |-> Null, usdCost |-> Zero,
   tokens |-> Zero, query |-> Null, price |-> NoPrice,
   record |-> NoDoc, call |-> NoDoc]

\* ------------------------------------------------- the chain (read only)
\* a parsed SPL-token instruction as getParsedTransaction returns it
Instr(type, destination, amount, tokenAmount, mint, authority) ==
  [isTokenProgram |-> TRUE, type |-> type, destination |-> destination,
   amount |-> amount, tokenAmount |-> tokenAmount, mint |-> mint,
   authority |-> authority]

TokenBal(accountIndex, owner, mint, uiAmount) ==
  [accountIndex |-> accountIndex, owner |-> owner, mint |-> mint, uiAmount |-> uiAmount]

\* the confirmed transactions a deposit request can name
Chain ==
  [t \in ConfirmedIds |->
     CASE t = "T1" ->  \* 0.001 token to W1 (no decimals given: 10^6 units of 10^-9 token)
            [found |-> TRUE, err |-> FALSE,
             instructions |-> <<Instr("transfer", "W1", 1000000, NoTokenAmount, TokenMint, "Ext")>>,
             preTokenBalances |-> <<>>, postTokenBalances |-> <<>>]
       [] t = "T0" ->  \* a transfer of nothing to W1
            [found |-> TRUE, err |-> FALSE,
             instructions |-> <<Instr("transferChecked", "W1", NoRaw,
                                      [amount |-> 0, decimals |-> 9], TokenMint, "Ext")>>,
             preTokenBalances |-> <<>>, postTokenBalances |-> <<>>]
       [] t = "T2" ->  \* 0.001 token from W2 into the treasury account, and 0.001 to W1
            [found |-> TRUE, err |-> FALSE,
             instructions |-> <<Instr("transfer", TreasuryAta, 1000000, NoTokenAmount, TokenMint, "W2")>>,
             preTokenBalances |-> <<TokenBal(1, "W1", TokenMint, Zero)>>,
             postTokenBalances |-> <<TokenBal(1, "W1", TokenMint, Amount(10))>>]
       [] t = "T10" ->  \* 10 tokens into the token account of W1
            [found |-> TRUE, err |-> FALSE,
             instructions |-> <<Instr("transfer", "Ata", 10 * Pow10(MintDecimals), NoTokenAmount,
                                      TokenMint, "Ext")>>,
             preTokenBalances |-> <<TokenBal(1, "W1", TokenMint, Zero)>>,
             postTokenBalances |-> <<TokenBal(1, "W1", TokenMint, Num(10))>>]
       [] t = "T4" ->  \* 0.001 token out of the token account of W1
            [found |-> TRUE, err |-> FALSE,
             instructions |-> <<Instr("transfer", "Ata", 1000000, NoTokenAmount, TokenMint, "W1")>>,
             preTokenBalances |-> <<TokenBal(1, "W1", TokenMint, Amount(10))>>,
             postTokenBalances |-> <<TokenBal(1, "W1", TokenMint, Zero)>>]]

\* connection.getParsedTransaction rejected
Thrown == [throws |-> TRUE]

\* connection.getSignaturesForAddress(userAta): the transactions touching the wallet's account
SignaturesFor(w) ==
  IF w = "W1" THEN <<"T0", "T1">> ELSE <<>>

\* decimals = tokenAmount?.decimals || 9; actualAmount / Math.pow(10, decimals)
Normalize(raw, decimals) ==
  Div(Num(raw), Num(Pow10(IF decimals = NoRaw \/ decimals = 0 THEN DefaultDecimals ELSE decimals)))

\* uiTokenAmount.uiAmount as the RPC node reports it: the base units of an
\* account divided by 10 to the power of the decimals of its mint
UiAmount(raw, decimals) == Div(Num(raw), Num(Pow10(decimals)))

RECURSIVE FirstTransferTo(_, _, _)
\* index of the first token transfer instruction whose destination is the recipient, or 0
FirstTransferTo(instructions, i, recipient) ==
  IF i > Len(instructions) THEN 0
  ELSE IF /\ instructions[i].isTokenProgram
          /\ instructions[i].type \in {"transfer", "transferChecked"}
          /\ instructions[i].destination = recipient
         THEN i
  ELSE FirstTransferTo(instructions, i + 1, recipient)

RECURSIVE FirstOwnedBy(_, _, _)
\* index of the first token balance whose owner is the recipient, or 0
FirstOwnedBy(bals, i, owner) ==
  IF i > Len(bals) THEN 0
  ELSE IF bals[i].owner = owner THEN i
  ELSE FirstOwnedBy(bals, i + 1, owner)

RECURSIVE FirstWithIndex(_, _, _)
FirstWithIndex(bals, i, accountIndex) ==
  IF i > Len(bals) THEN 0
  ELSE IF bals[i].accountIndex = accountIndex THEN i
  ELSE FirstWithIndex(bals, i + 1, accountIndex)

\* uiAmount || 0
OrZero(x) == IF x = NoAmount THEN Zero ELSE x

Rejected(error) == [isValid |-> FALSE, actualAmount |-> NoAmount, error |-> error]

\* what the instruction loop and the token-balance fallback find
FoundTransfer(transaction, expectedRecipient) ==
  LET i == FirstTransferTo(transaction.instructions, 1, expectedRecipient)
      j == FirstOwnedBy(transaction.postTokenBalances, 1, expectedRecipient)
  IN IF i > 0 THEN
       LET info == transaction.instructions[i]
           \* parsed.info.amount || parsed.info.tokenAmount?.amount || 0
           raw == IF info.amount # NoRaw /\ info.amount # 0 THEN info.amount
                  ELSE IF info.tokenAmount # NoTokenAmount /\ info.tokenAmount.amount # 0
                         THEN info.tokenAmount.amount
                  ELSE 0
       IN [tokenTransferFound |-> TRUE,
           actualAmount |-> Normalize(raw, info.tokenAmount.decimals),
           tokenMint |-> info.mint, transferAuthority |-> info.authority]
     ELSE IF j > 0 THEN
       LET bal == transaction.postTokenBalances[j]
           k == FirstWithIndex(transaction.preTokenBalances, 1, bal.accountIndex)
           preBalance == IF k > 0 THEN OrZero(transaction.preTokenBalances[k].uiAmount) ELSE Zero
           postBalance == OrZero(bal.uiAmount)
       IN [tokenTransferFound |-> TRUE, actualAmount |-> Sub(postBalance, preBalance),
           tokenMint |-> bal.mint, transferAuthority |-> Null]
     ELSE [tokenTransferFound |-> FALSE, actualAmount |-> Zero,
           tokenMint |-> Null, transferAuthority |-> Null]

\* the checks verifyDepositTransaction makes on what it found in the transaction
\* that getParsedTransaction answered with (null is found = FALSE)
Verified(transaction, f, expectedAmount, expectedTokenMint, expectedSender) ==
  IF transaction = Thrown THEN Rejected("Verification failed")
  ELSE IF ~transaction.found THEN Rejected("Transaction not found on blockchain")
  ELSE IF transaction.err THEN Rejected("Transaction failed")
  ELSE IF ~f.tokenTransferFound THEN Rejected("No token transfer found")
  ELSE IF expectedSender # Null /\ f.transferAuthority = Null THEN Rejected("Could not determine transfer sender")
  ELSE IF expectedSender # Null /\ f.transferAuthority # expectedSender THEN Rejected("Transfer sender mismatch")
  ELSE IF expectedTokenMint # Null /\ f.tokenMint # expectedTokenMint THEN Rejected("Token mint mismatch")
  ELSE IF /\ expectedAmount # NoAmount
          /\ Less(tolerance, Abs(Sub(f.actualAmount, expectedAmount)))
         THEN Rejected("Amount mismatch")
  ELSE [isValid |-> TRUE, actualAmount |-> f.actualAmount, error |-> Null]

\* verifyDepositTransaction once getParsedTransaction has answered with the
\* transaction, with null or by throwing
verifyTransaction(transaction, expectedRecipient, expectedAmount, expectedTokenMint, expectedSender) ==
  Verified(transaction,
           IF transaction = Thrown THEN Thrown ELSE FoundTransfer(transaction, expectedRecipient),
           expectedAmount, expectedTokenMint, expectedSender)

\* a verifier that accepts whatever it is asked about
verifyAccepts(txHash, expectedRecipient, expectedAmount, expectedTokenMint, expectedSender) ==
  [isValid |-> TRUE, actualAmount |-> Amount(1), error |-> Null]

\* what the verifier finds in each transaction of the chain, for each recipient
\* a deposit route asks about (the chain does not change: computed once)
Found ==
  [t \in ConfirmedIds |-> [w \in Wallets \cup {TreasuryAta} |-> FoundTransfer(Chain[t], w)]]

\* the verification of a transaction of the chain
verifyDepositTransaction(txHash, expectedRecipient, expectedAmount, expectedTokenMint, expectedSender) ==
  Verified(Chain[txHash], Found[txHash][expectedRecipient], expectedAmount,
           expectedTokenMint, expectedSender)

\* the raw amounts a transfer of an asset with this many decimals can carry:
\* one token of an asset with 0 or 6 decimals; 0.001, 0.00105, a little more
\* than 0.0011 and 0.0012 token of an asset with 9 decimals
RawAmounts(decimals) ==
  CASE decimals = 0 -> {1}
    [] decimals = 6 -> {1000000}
    [] OTHER -> {1000000, 1050000, 1100001, 1200000}

\* a confirmed transaction that moves raw base units of an asset: as a parsed
\* transfer or transferChecked instruction whose destination is `to`, as a
\* transfer into a token account that `to` owns (seen in the token balances
\* only), or as a transfer out of a token account that `to` owns.  The fields
\* shape, to, raw, decimals, mint and authority describe the transfer itself.
Transfer(shape, to, raw, decimals, mint, authority) ==
  LET instructions ==
        CASE shape = "transfer" ->
               <<Instr("transfer", to, raw, NoTokenAmount, mint, authority)>>
          [] shape = "transferChecked" ->
               <<Instr("transferChecked", to, NoRaw,
                       [amount |-> raw, decimals |-> decimals], mint, authority)>>
          [] OTHER -> <<Instr("transfer", "Ata", raw, NoTokenAmount, mint, authority)>>
  IN [found |-> TRUE, err |-> FALSE, instructions |-> instructions,
      preTokenBalances |->
        CASE shape = "balances" -> <<TokenBal(1, to, mint, Zero)>>
          [] shape = "sent" -> <<TokenBal(1, to, mint, UiAmount(raw, decimals))>>
          [] OTHER -> <<>>,
      postTokenBalances |->
        CASE shape = "balances" -> <<TokenBal(1, to, mint, UiAmount(raw, decimals))>>
          [] shape = "sent" -> <<TokenBal(1, to, mint, Zero)>>
          [] OTHER -> <<>>,
      shape |-> shape, to |-> to, raw |-> raw, decimals |-> decimals,
      mint |-> mint, authority |-> authority]

\* what getParsedTransaction can answer: a transfer, a transfer that failed on
\* chain, null, or an exception
Transactions ==
  LET transfers ==
        UNION {{Transfer(shape, "W1", x[1], x[2], by[1], by[2]) :
                  by \in Signers, x \in UNION {RawAmounts(d) \X {d} : d \in AssetDecimals}} :
               shape \in Shapes}
      t == Transfer("transfer", "W1", 1000000, 9, TokenMint, "W2")
  IN transfers \cup {[t EXCEPT !.err = TRUE], [t EXCEPT !.found = FALSE], Thrown}

\* ------------------------------------------------------------ price oracle
RECURSIVE InWindow(_, _, _)
\* priceCache.filter(entry => t - entry.timestamp <= windowMs)
InWindow(cache, t, windowMs) ==
  IF cache = <<>> THEN <<>>
  ELSE IF t - Head(cache).timestamp <= windowMs
         THEN <<Head(cache)>> \o InWindow(Tail(cache), t, windowMs)
         ELSE InWindow(Tail(cache), t, windowMs)

RECURSIVE SumPrices(_)
\* relevantPrices.reduce((acc, entry) => acc + entry.price, 0)
SumPrices(cache) ==
  IF cache = <<>> THEN Zero
  ELSE Add(SumPrices(SubSeq(cache, 1, Len(cache) - 1)), cache[Len(cache)].price)

\* an average that ignores the window
getTWAPPriceOfAll(cache, t) ==
  IF cache = <<>> THEN NoPrice ELSE Div(SumPrices(cache), Num(Len(cache)))

\* sum / relevantPrices.length over the samples inside the window; the newest
\* sample when the window is empty; NoPrice when the call throws
getTWAPPrice(cache, t) ==
  LET relevantPrices == InWindow(cache, t, twapWindowMs)
  IN IF cache = <<>> THEN NoPrice
     ELSE IF relevantPrices = <<>> THEN cache[Len(cache)].price
     ELSE Div(SumPrices(relevantPrices), Num(Len(relevantPrices)))

\* a prune that drops nothing
cleanCacheKeepsAll(cache, t) == cache

cleanCache(cache, t) == InWindow(cache, t, twapWindowMs * 2)

\* the newest sample while its age is at most cacheExpiryMs, else null
getCachedPrice(cache, t) ==
  IF cache = <<>> THEN NoPrice
  ELSE IF t - cache[Len(cache)].timestamp > cacheExpiryMs THEN NoPrice
  ELSE cache[Len(cache)].price

\* fetchCurrentPrice once the query has answered at time t: the cache it leaves
\* and what it returns
priceAfterQuery(ok, price, cache, t) ==
  IF ok
    THEN [cache |-> cleanCache(Append(cache, [price |-> price, timestamp |-> t]), t),
          error |-> "ok", price |-> price]
  ELSE IF Len(cache) > 0
    THEN [cache |-> cache, error |-> "ok", price |-> cache[Len(cache)].price]
  ELSE [cache |-> cache, error |-> "PriceUnavailable", price |-> NoPrice]

\* one query of the price service: a sample is appended and the cache pruned,
\* or the query fails and the cache is left as it is
fetchCurrentPrice ==
  /\ \E ok \in BOOLEAN, price \in Prices :
       /\ ok => Len(priceCache) < MaxSamples
       /\ priceCache' = priceAfterQuery(ok, price, priceCache, now).cache
  /\ UNCHANGED <<balances, usageRecords, now, req, completed, ops>>
  /\ UNCHANGED settleVars
  /\ UNCHANGED connVars

\* a clamp that forgets the floor
clampToCeiling(rawBurn) == Min(rawBurn, burnCeiling)

\* Math.max(this.burnFloor, Math.min(rawBurn, this.burnCeiling))
clamp(rawBurn) == Max(burnFloor, Min(rawBurn, burnCeiling))

\* usdCost / tokenPrice tokens, clamped
calculateTokenBurn(usdCost, cache, t) ==
  LET tokenPrice == getTWAPPrice(cache, t)
  IN IF tokenPrice = NoPrice THEN [error |-> "NoPriceData", tokens |-> Zero]
     ELSE IF LessEq(tokenPrice, Zero) THEN [error |-> "InvalidPrice", tokens |-> Zero]
     ELSE [error |-> "ok", tokens |-> clamp(Div(usdCost, tokenPrice))]

\* --------------------------------------------------------- balance ledger
Begin(p, r, maxOps) ==
  /\ req[p].pc \in {"idle", "done"}
  /\ ops < maxOps
  /\ req' = [req EXCEPT ![p] = r]
  /\ ops' = ops + 1

\* the handler has answered: its locals are gone, its outcome is kept
Done(r, result) ==
  [IdleReq EXCEPT !.op = r.op, !.pc = "done", !.walletAddress = r.walletAddress,
                  !.result = result]

\* GET /balance/:walletAddress
getBalance(p, maxOps) ==
  /\ \E w \in Wallets :
       Begin(p, [IdleReq EXCEPT !.op = "getBalance", !.pc = "findOne", !.walletAddress = w], maxOps)
  /\ UNCHANGED <<balances, usageRecords, priceCache, now, completed>>
  /\ UNCHANGED settleVars
  /\ UNCHANGED connVars

hasSufficientBalance(p, maxOps) ==
  /\ \E w \in Wallets, requiredAmount \in DebitAmounts :
       Begin(p, [IdleReq EXCEPT !.op = "hasSufficientBalance", !.pc = "findOne",
                                !.walletAddress = w, !.amount = requiredAmount], maxOps)
  /\ UNCHANGED <<balances, usageRecords, priceCache, now, completed>>
  /\ UNCHANGED settleVars
  /\ UNCHANGED connVars

deductTokens(p, maxOps) ==
  /\ \E w \in Wallets, amount \in DebitAmounts, requestType \in RequestTypes, usdCost \in UsdCosts :
       Begin(p, [IdleReq EXCEPT !.op = "deductTokens", !.pc = "findOne", !.walletAddress = w,
                                !.amount = amount, !.requestType = requestType,
                                !.usdCost = usdCost], maxOps)
  /\ UNCHANGED <<balances, usageRecords, priceCache, now, completed>>
  /\ UNCHANGED settleVars
  /\ UNCHANGED connVars

\* a request handler prices its cost: priceOracle.calculateTokenBurn(usdCost)
requiredTokens(p, maxOps) ==
  /\ \E usdCost \in UsdInputs :
       LET r == [IdleReq EXCEPT !.op = "calculateTokenBurn"]
           burn == calculateTokenBurn(usdCost, priceCache, now)
       IN Begin(p, [Done(r, burn.error) EXCEPT !.usdCost = usdCost, !.tokens = burn.tokens], maxOps)
  /\ UNCHANGED <<balances, usageRecords, priceCache, now, completed>>
  /\ UNCHANGED settleVars
  /\ UNCHANGED connVars

\* a call of verifyDepositTransaction: its arguments and what
\* getParsedTransaction answers with
VerifierCalls ==
  [transaction : Transactions, expectedRecipient : Wallets,
   expectedAmount : ExpectedAmounts \cup {NoAmount},
   expectedTokenMint : {TokenMint, Null}, expectedSender : {"W2", Null}]

\* transactionVerifier.verifyDepositTransaction(...) called with req[p].call
verify(p) ==
  /\ req[p].pc = "called"
  /\ req[p].op = "verifyDepositTransaction"
  /\ LET c == req[p].call
         verification == verifyTransaction(c.transaction, c.expectedRecipient, c.expectedAmount,
                                           c.expectedTokenMint, c.expectedSender)
     IN req' = [req EXCEPT ![p] =
                  [Done(@, "returned") EXCEPT
                     !.call = [transaction |-> c.transaction,
                               expectedRecipient |-> c.expectedRecipient,
                               expectedAmount |-> c.expectedAmount,
                               expectedTokenMint |-> c.expectedTokenMint,
                               expectedSender |-> c.expectedSender,
                               verification |-> verification]]]
  /\ ops' = ops + 1
  /\ UNCHANGED <<balances, usageRecords, priceCache, now, completed>>
  /\ UNCHANGED settleVars
  /\ UNCHANGED connVars

\* GET /price reads the fresh sample: priceOracle.getCachedPrice()
priceCached(p, maxOps) ==
  /\ LET r == [IdleReq EXCEPT !.op = "getCachedPrice"]
         price == getCachedPrice(priceCache, now)
     IN Begin(p, [Done(r, IF price = NoPrice THEN "null" ELSE "ok") EXCEPT !.price = price], maxOps)
  /\ UNCHANGED <<balances, usageRecords, priceCache, now, completed>>
  /\ UNCHANGED settleVars
  /\ UNCHANGED connVars

\* GET /price queries the price service: await priceOracle.fetchCurrentPrice()
priceFetch(p, maxOps) ==
  /\ \E ok \in BOOLEAN, price \in OraclePrices :
       LET r == [IdleReq EXCEPT !.op = "fetchCurrentPrice"]
           out == priceAfterQuery(ok, price, priceCache, now)
       IN /\ ok => Len(priceCache) < MaxCache
          /\ Begin(p, [Done(r, out.error) EXCEPT !.price = out.price,
                                                 !.query = IF ok THEN "answered" ELSE "failed"], maxOps)
          /\ priceCache' = out.cache
  /\ UNCHANGED <<balances, usageRecords, now, completed>>
  /\ UNCHANGED settleVars
  /\ UNCHANGED connVars

\* GET /price reads the average: priceOracle.getTWAPPrice()
priceTwap(p, maxOps) ==
  /\ LET r == [IdleReq EXCEPT !.op = "getTWAPPrice"]
         price == getTWAPPrice(priceCache, now)
     IN Begin(p, [Done(r, IF price = NoPrice THEN "NoPriceData" ELSE "ok") EXCEPT !.price = price], maxOps)
  /\ UNCHANGED <<balances, usageRecords, priceCache, now, completed>>
  /\ UNCHANGED settleVars
  /\ UNCHANGED connVars

\* time passes
tick ==
  /\ \E t \in Instants : t > now /\ now' = t
  /\ UNCHANGED <<balances, usageRecords, priceCache, req, completed, ops>>
  /\ UNCHANGED settleVars
  /\ UNCHANGED connVars

\* verification.actualAmount || parseFloat(amount)
OrAmount(actualAmount, amount) ==
  IF actualAmount # NoAmount /\ actualAmount # Zero THEN actualAmount ELSE amount

\* verification.actualAmount ?? parseFloat(amount)
CoalesceAmount(actualAmount, amount) ==
  IF actualAmount # NoAmount THEN actualAmount ELSE amount

\* POST /deposit up to the duplicate check, for a body whose amount and
\* txHash are among the given ones
postDeposit(p, maxOps, amounts, txHashes) ==
  /\ \E w \in Wallets, amount \in amounts, txHash \in txHashes :
       LET r == [IdleReq EXCEPT !.op = "deposit", !.walletAddress = w,
                                !.amount = amount, !.txHash = txHash]
           verification == verifyDepositTransaction(txHash, w, amount, TokenMint, Null)
       IN IF amount = Zero THEN Begin(p, Done(r, "BadRequest"), maxOps)
          ELSE IF ~verification.isValid THEN Begin(p, Done(r, "VerificationFailed"), maxOps)
          ELSE Begin(p, [r EXCEPT !.pc = "dupCheck",
                                  !.credit = OrAmount(verification.actualAmount, amount)], maxOps)
  /\ UNCHANGED <<balances, usageRecords, priceCache, now, completed>>
  /\ UNCHANGED settleVars
  /\ UNCHANGED connVars

deposit(p, maxOps) == postDeposit(p, maxOps, CallerAmounts, TxIds)

\* the compiled chat route, POST /api/chat/message, up to its balance check:
\* requiredTokens = calculateTokenBurn(DEFAULT_CHAT_COST_USD), whose throw the
\* handler answers with a 500, then hasSufficientBalance(walletAddress, requiredTokens)
chat(p, maxOps) ==
  /\ \E w \in Wallets :
       LET r == [IdleReq EXCEPT !.op = "chat", !.walletAddress = w,
                                !.requestType = "chat", !.usdCost = DEFAULT_CHAT_COST_USD]
           burn == calculateTokenBurn(DEFAULT_CHAT_COST_USD, priceCache, now)
       IN IF burn.error # "ok" THEN Begin(p, Done(r, "ServerError"), maxOps)
          ELSE Begin(p, [r EXCEPT !.pc = "findOne", !.amount = burn.tokens], maxOps)
  /\ UNCHANGED <<balances, usageRecords, priceCache, now, completed>>
  /\ UNCHANGED settleVars
  /\ UNCHANGED connVars

\* the compiled chat route once the balance suffices: the model type is not
\* available (400), or generateResponse throws (500), or it answers: then
\* actualRequiredTokens = calculateTokenBurn(DEFAULT_CHAT_COST_USD) and the
\* handler calls deductTokens(walletAddress, actualRequiredTokens, 'chat', actualCostUsd),
\* whose outcome is the handler's
reply(p) ==
  /\ req[p].pc = "llm"
  /\ req[p].op = "chat"
  /\ \E outcome \in LlmOutcomes :
       LET r == req[p]
           burn == calculateTokenBurn(DEFAULT_CHAT_COST_USD, priceCache, now)
       IN req' = [req EXCEPT ![p] =
            IF outcome = "unavailable" THEN Done(r, "ModelNotAvailable")
            ELSE IF outcome = "error" \/ burn.error # "ok" THEN Done(r, "ServerError")
            ELSE [r EXCEPT !.op = "deductTokens", !.pc = "findOne",
                           !.tokens = burn.tokens, !.amount = burn.tokens]]
  /\ UNCHANGED <<balances, usageRecords, priceCache, now, completed, ops>>
  /\ UNCHANGED settleVars
  /\ UNCHANGED connVars

\* isAdminUser: the wallet is a user flagged isAdmin or is listed in
\* ADMIN_WALLET_ADDRESSES
isAdminUser(walletAddress, adminWallets) == walletAddress \in adminWallets

\* estimateCost(500, 500, 'deepseek'): calculateUsageCost's
\* (inputTokens / 1_000_000) * 0.27 + (outputTokens / 1_000_000) * 1.10, added to 0
estimatedCost ==
  Add(Zero, Add(Mul(Div(Num(500), Num(1000000)), Dec(27, 2)),
                Mul(Div(Num(500), Num(1000000)), Dec(110, 2))))

\* the chat route's source, POST /api/chat/message, up to the call of the
\* model: isAdminUser, then calculateTokenBurn(estimatedCost), whose throw
\* the handler answers with a 500; a wallet that is no admin then has
\* balanceTracker.hasMinimumDeposit called, which the tracker does not
\* define: the TypeError is answered with a 500 and nothing is debited
message(p, maxOps) ==
  /\ \E w \in Wallets :
       LET r == [IdleReq EXCEPT !.op = "message", !.walletAddress = w]
           burn == calculateTokenBurn(estimatedCost, priceCache, now)
       IN IF burn.error # "ok" THEN Begin(p, Done(r, "ServerError"), maxOps)
          ELSE \E adminWallets \in SUBSET Wallets :
                 IF ~isAdminUser(w, adminWallets)
                   THEN Begin(p, Done(r, "ServerError"), maxOps)
                   ELSE Begin(p, [r EXCEPT !.pc = "llm"], maxOps)
  /\ UNCHANGED <<balances, usageRecords, priceCache, now, completed>>
  /\ UNCHANGED settleVars
  /\ UNCHANGED connVars

\* the chat route's source for an admin, from the model's answer to the
\* call of the usage meter: generateResponse throws (500), or it answers: then
\* actualCostUsd = llmResponse.cost || estimatedCost is priced (a throw is a
\* 500) and the handler awaits tokenMeterService.recordUsageFromMetrics
messageReply(p) ==
  /\ req[p].pc = "llm"
  /\ req[p].op = "message"
  /\ \E outcome \in {"reply", "error"}, cost \in LlmCosts :
       LET r == req[p]
           actualCostUsd == IF cost = Zero THEN estimatedCost ELSE cost
           burn == calculateTokenBurn(actualCostUsd, priceCache, now)
       IN req' = [req EXCEPT ![p] =
            IF outcome = "error" \/ burn.error # "ok" THEN Done(r, "ServerError")
            ELSE [r EXCEPT !.pc = "meter"]]
  /\ UNCHANGED <<balances, usageRecords, priceCache, now, completed, ops>>
  /\ UNCHANGED settleVars
  /\ UNCHANGED connVars

\* the chat route's source for an admin, once the usage meter has answered:
\* Usage.create has stored the metrics, or it has thrown, which the handler
\* logs and ignores (the Usage collection is read by no ledger or settlement
\* call); either way the handler calls getBalance(walletAddress) without
\* deducting
recordUsageFromMetrics(p) ==
  /\ req[p].pc = "meter"
  /\ \E recorded \in BOOLEAN :
       req' = [req EXCEPT ![p] = [req[p] EXCEPT !.pc = "findOne"]]
  /\ UNCHANGED <<balances, usageRecords, priceCache, now, completed, ops>>
  /\ UNCHANGED settleVars
  /\ UNCHANGED connVars

\* POST /deposit/pay up to the duplicate check
depositPay(p, maxOps) ==
  /\ \E w \in Wallets, amount \in CallerAmounts, txHash \in TxIds :
       LET r == [IdleReq EXCEPT !.op = "depositPay", !.walletAddress = w,
                                !.amount = amount, !.txHash = txHash]
           verification == verifyDepositTransaction(txHash, TreasuryAta, amount, TokenMint, w)
       IN IF amount = Zero THEN Begin(p, Done(r, "BadRequest"), maxOps)
          ELSE IF ~verification.isValid THEN Begin(p, Done(r, "VerificationFailed"), maxOps)
          ELSE Begin(p, [r EXCEPT !.pc = "dupCheck",
                                  !.credit = CoalesceAmount(verification.actualAmount, amount)], maxOps)
  /\ UNCHANGED <<balances, usageRecords, priceCache, now, completed>>
  /\ UNCHANGED settleVars
  /\ UNCHANGED connVars

\* POST /deposit/scan up to the first signature
depositScan(p, maxOps) ==
  /\ \E w \in Wallets :
       LET r == [IdleReq EXCEPT !.op = "depositScan", !.walletAddress = w,
                                !.sigs = SignaturesFor(w)]
       IN IF r.sigs = <<>> THEN Begin(p, Done(r, "ok"), maxOps)
          ELSE Begin(p, [r EXCEPT !.pc = "dupCheck", !.txHash = Head(r.sigs)], maxOps)
  /\ UNCHANGED <<balances, usageRecords, priceCache, now, completed>>
  /\ UNCHANGED settleVars
  /\ UNCHANGED connVars

\* TokenBalance.findOne({'transactions.txHash': txHash})
HasTxHash(doc, txHash) ==
  /\ doc # NoDoc
  /\ \E i \in 1..Len(doc.transactions) : doc.transactions[i].txHash = txHash

\* TransactionVerifierService.isTransactionDuplicate, the stub that finds nothing
isTransactionDuplicate(txHash) == FALSE

existingTransaction(txHash) == \E w \in Wallets : HasTxHash(balances[w], txHash)

\* the scan loop moves to its next signature
NextSignature(r) ==
  IF Len(r.sigs) <= 1 THEN Done(r, "ok")
  ELSE [r EXCEPT !.sigs = Tail(r.sigs), !.txHash = Head(Tail(r.sigs)), !.pc = "dupCheck"]

\* the duplicate lookup of the three deposit routes has answered: /deposit and
\* /deposit/pay go on to recordDeposit, the scan asks the verifier about the
\* signature
dupCheck(p) ==
  /\ req[p].pc = "dupCheck"
  /\ LET r == req[p]
     IN req' = [req EXCEPT ![p] =
          IF r.op = "depositScan" THEN
            IF existingTransaction(r.txHash) THEN NextSignature(r)
            ELSE [r EXCEPT !.pc = "verify"]
          ELSE
            IF existingTransaction(r.txHash) THEN Done(r, "DuplicateTransaction")
            ELSE [r EXCEPT !.pc = "findOne"]]
  /\ UNCHANGED <<balances, usageRecords, priceCache, now, completed, ops>>
  /\ UNCHANGED settleVars
  /\ UNCHANGED connVars

\* the scan after the verifier has answered about its signature:
\* if (!verification.isValid || verification.actualAmount == null ||
\* verification.actualAmount <= 0) continue; else recordDeposit
scanVerified(p) ==
  /\ req[p].pc = "verify"
  /\ LET r == req[p]
         verification == verifyDepositTransaction(r.txHash, r.walletAddress, NoAmount, TokenMint, Null)
     IN req' = [req EXCEPT ![p] =
          IF ~verification.isValid \/ verification.actualAmount = NoAmount
             \/ LessEq(verification.actualAmount, Zero) THEN NextSignature(r)
          ELSE [r EXCEPT !.pc = "findOne", !.credit = verification.actualAmount]]
  /\ UNCHANGED <<balances, usageRecords, priceCache, now, completed, ops>>
  /\ UNCHANGED settleVars
  /\ UNCHANGED connVars

\* a check that also refuses a debit of the whole balance
InsufficientOrEqual(doc, amount) == LessEq(doc.currentBalance, amount)

\* deductTokens: balance.currentBalance < amount
Insufficient(doc, amount) == Less(doc.currentBalance, amount)

\* what the caller of getBalance does with the document it got; the compiled
\* chat route whose hasSufficientBalance has answered false awaits a second
\* getBalance (op "chatInsufficient") for the balance its 402 reports
afterGetBalance(r, doc) ==
  CASE r.op \in {"getBalance", "message"} -> Done(r, "ok")
    [] r.op = "chat" ->
         IF LessEq(r.amount, doc.currentBalance)
           THEN [r EXCEPT !.pc = "llm"]
           ELSE [r EXCEPT !.op = "chatInsufficient", !.pc = "findOne"]
    [] r.op = "chatInsufficient" -> Done([r EXCEPT !.op = "chat"], "InsufficientTokens")
    [] r.op = "hasSufficientBalance" ->
         Done(r,
              IF LessEq(r.amount, doc.currentBalance) THEN "true" ELSE "false")
    [] r.op = "deductTokens" ->
         IF Insufficient(doc, r.amount)
           THEN Done(r, "InsufficientBalance")
           ELSE [r EXCEPT !.balance = doc, !.pc = "save"]
    [] OTHER -> [r EXCEPT !.balance = doc, !.pc = "save"]

\* a lookup without the walletAddress filter: the first document of the
\* collection, whoever owns it
findAny(p) ==
  /\ req[p].pc = "findOne"
  /\ LET r == req[p]
         doc == IF balances["W1"] # NoDoc THEN balances["W1"] ELSE balances[r.walletAddress]
     IN req' = [req EXCEPT ![p] =
          IF doc = NoDoc THEN [r EXCEPT !.pc = "create"] ELSE afterGetBalance(r, doc)]
  /\ UNCHANGED <<balances, usageRecords, priceCache, now, completed, ops>>
  /\ UNCHANGED settleVars
  /\ UNCHANGED connVars

\* getBalance: TokenBalance.findOne({walletAddress})
findOne(p) ==
  /\ req[p].pc = "findOne"
  /\ LET r == req[p]
         doc == balances[r.walletAddress]
     IN req' = [req EXCEPT ![p] =
          IF doc = NoDoc THEN [r EXCEPT !.pc = "create"] ELSE afterGetBalance(r, doc)]
  /\ UNCHANGED <<balances, usageRecords, priceCache, now, completed, ops>>
  /\ UNCHANGED settleVars
  /\ UNCHANGED connVars

\* getBalance: the save of the new zeroed document; walletAddress is a unique
\* key, so the insert fails when another request has created the document
create(p) ==
  /\ req[p].pc = "create"
  /\ LET r == req[p]
     IN IF balances[r.walletAddress] # NoDoc
          THEN /\ req' = [req EXCEPT ![p] = Done(r, "StoreError")]
               /\ balances' = balances
          ELSE /\ req' = [req EXCEPT ![p] = afterGetBalance(r, ZeroDoc)]
               /\ balances' = [balances EXCEPT ![r.walletAddress] = ZeroDoc]
  /\ UNCHANGED <<usageRecords, priceCache, now, completed, ops>>
  /\ UNCHANGED settleVars
  /\ UNCHANGED connVars

\* recordDeposit: balance.depositedAmount += amount; balance.currentBalance += amount
creditDoc(doc, amount) ==
  [doc EXCEPT !.depositedAmount = Add(@, amount), !.currentBalance = Add(@, amount)]

\* a debit that forgets the balance
debitDocKeepsBalance(doc, amount) ==
  [doc EXCEPT !.consumedAmount = Add(@, amount)]

\* deductTokens: balance.consumedAmount += amount; balance.currentBalance -= amount
debitDoc(doc, amount) ==
  [doc EXCEPT !.consumedAmount = Add(@, amount), !.currentBalance = Sub(@, amount)]

\* balance.save() of a fetched document: each amount the request changed is
\* $set to the value the request computed from its own copy, the others are
\* left as stored, and the pushed entry is appended to the stored list
Save(stored, fetched, local, entry) ==
  [stored EXCEPT
     !.depositedAmount = IF local.depositedAmount # fetched.depositedAmount
                           THEN local.depositedAmount ELSE @,
     !.consumedAmount = IF local.consumedAmount # fetched.consumedAmount
                          THEN local.consumedAmount ELSE @,
     !.currentBalance = IF local.currentBalance # fetched.currentBalance
                          THEN local.currentBalance ELSE @,
     !.transactions = Append(@, entry)]

\* the schema's min: 0 validators, run by save()
Valid(doc) ==
  /\ LessEq(Zero, doc.depositedAmount)
  /\ LessEq(Zero, doc.consumedAmount)
  /\ LessEq(Zero, doc.currentBalance)

\* recordDeposit from the mutation of the fetched document to the end of its save
saveDeposit(p) ==
  /\ req[p].pc = "save"
  /\ req[p].op \in {"deposit", "depositPay", "depositScan"}
  /\ LET r == req[p]
         w == r.walletAddress
         local == creditDoc(r.balance, r.credit)
         entry == [type |-> "deposit", amount |-> r.credit, txHash |-> r.txHash]
     IN IF ~Valid(local)
          THEN /\ req' = [req EXCEPT ![p] = Done(r, "ValidationError")]
               /\ UNCHANGED <<balances, completed>>
          ELSE /\ balances' = [balances EXCEPT ![w] = Save(@, r.balance, local, entry)]
               /\ completed' = [completed EXCEPT ![w].deposits = Append(@, r.credit)]
               /\ req' = [req EXCEPT ![p] =
                     IF r.op = "depositScan" THEN NextSignature(r) ELSE Done(r, "ok")]
  /\ UNCHANGED <<usageRecords, priceCache, now, ops>>
  /\ UNCHANGED settleVars
  /\ UNCHANGED connVars

\* new UsageRecord({...}): the document UsageRecord.create builds before it
\* inserts it; timestamp defaults to Date.now
NewUsageRecord(r, tokenPrice, t) ==
  [walletAddress |-> r.walletAddress, requestType |-> r.requestType,
   usdCost |-> r.usdCost, tokenPrice |-> tokenPrice,
   tokensBurned |-> r.amount, timestamp |-> t,
   settled |-> FALSE, txHash |-> NoSignature]

\* deductTokens from the mutation of the fetched document to the end of its
\* save, and on to the call of UsageRecord.create: the TWAP price is read and
\* the record is built as soon as the save has answered
saveDebit(p) ==
  /\ req[p].pc = "save"
  /\ req[p].op = "deductTokens"
  /\ LET r == req[p]
         w == r.walletAddress
         local == debitDoc(r.balance, r.amount)
         entry == [type |-> "usage", amount |-> Neg(r.amount), txHash |-> Null]
         tokenPrice == getTWAPPrice(priceCache, now)
     IN IF ~Valid(local)
          THEN /\ req' = [req EXCEPT ![p] = Done(r, "ValidationError")]
               /\ UNCHANGED <<balances, completed>>
          ELSE /\ balances' = [balances EXCEPT ![w] = Save(@, r.balance, local, entry)]
               /\ completed' = [completed EXCEPT ![w].debits = Append(@, r.amount)]
               /\ req' = [req EXCEPT ![p] =
                     IF tokenPrice = NoPrice THEN Done(r, "NoPriceData")
                     ELSE [r EXCEPT !.pc = "usage",
                                    !.record = NewUsageRecord(r, tokenPrice, now)]]
  /\ UNCHANGED <<usageRecords, priceCache, now, ops>>
  /\ UNCHANGED settleVars
  /\ UNCHANGED connVars

\* deductTokens: the insert of UsageRecord.create has answered
recordUsage(p) ==
  /\ req[p].pc = "usage"
  /\ usageRecords' = Append(usageRecords, req[p].record)
  /\ req' = [req EXCEPT ![p] = Done(req[p], "ok")]
  /\ UNCHANGED <<balances, priceCache, now, completed, ops>>
  /\ UNCHANGED settleVars
  /\ UNCHANGED connVars

Request(p, maxOps) ==
  \/ getBalance(p, maxOps)
  \/ hasSufficientBalance(p, maxOps)
  \/ deductTokens(p, maxOps)
  \/ deposit(p, maxOps)
  \/ depositPay(p, maxOps)
  \/ depositScan(p, maxOps)
  \/ dupCheck(p)
  \/ scanVerified(p)
  \/ findOne(p)
  \/ create(p)
  \/ saveDeposit(p)
  \/ saveDebit(p)
  \/ recordUsage(p)

\* the steps of a deductTokens call
Debit(p, maxOps) ==
  \/ deductTokens(p, maxOps)
  \/ findOne(p)
  \/ create(p)
  \/ saveDebit(p)
  \/ recordUsage(p)

\* ------------------------------------------------------ settlement engine
Ids(records) == 1..Len(records)

RECURSIVE Merge(_, _, _)
\* two lists of ids, each oldest first, merged oldest first; on equal
\* timestamps the ids of the first list come first (the middle id of the
\* first list goes after the ids of the second that are older than it)
Merge(a, b, records) ==
  IF a = <<>> THEN b
  ELSE IF b = <<>> THEN a
  ELSE IF records[a[Len(a)]].timestamp <= records[Head(b)].timestamp THEN a \o b
  ELSE LET m == (Len(a) + 1) \div 2
           before == Cardinality({j \in 1..Len(b) :
                                    records[b[j]].timestamp < records[a[m]].timestamp})
       IN Merge(SubSeq(a, 1, m - 1), SubSeq(b, 1, before), records)
          \o <<a[m]>>
          \o Merge(SubSeq(a, m + 1, Len(a)), SubSeq(b, before + 1, Len(b)), records)

RECURSIVE SortedRange(_, _, _, _)
\* the ids lo..hi, without the settled ones when unsettledOnly, oldest first
\* (the two sorted halves are bound before they are merged, so that each is
\* computed once)
SortedRange(records, lo, hi, unsettledOnly) ==
  IF lo > hi THEN <<>>
  ELSE IF lo = hi
         THEN IF unsettledOnly /\ records[lo].settled THEN <<>> ELSE <<lo>>
  ELSE LET mid == (lo + hi) \div 2
       IN CHOOSE merged \in
            {Merge(halves[1], halves[2], records) :
               halves \in {<<SortedRange(records, lo, mid, unsettledOnly),
                             SortedRange(records, mid + 1, hi, unsettledOnly)>>}} : TRUE

\* a query without the settled: false filter
SortedAll(records, n) == SortedRange(records, 1, n, FALSE)

\* find({settled: false}).sort({timestamp: 1}): the ids 1..n of the unsettled
\* records, oldest first
SortedUnsettled(records, n) == SortedRange(records, 1, n, TRUE)

Take(s, n) == IF Len(s) <= n THEN s ELSE SubSeq(s, 1, n)

\* a query that keeps the newest records of those that wait
getUnsettledNewest(records, limit) ==
  LET waiting == SortedUnsettled(records, Len(records))
  IN IF Len(waiting) <= limit THEN waiting
     ELSE SubSeq(waiting, Len(waiting) - limit + 1, Len(waiting))

\* UsageRecord.find({settled: false}).sort({timestamp: 1}).limit(limit)
getUnsettledRecords(records, limit) == Take(SortedUnsettled(records, Len(records)), limit)

RECURSIVE SumFrom(_, _, _, _, _)
\* sum + tokensBurned of ids[lo], then of ids[lo + 1], ... up to ids[hi]: the
\* additions are made in this order (the first half is bound before the
\* second is added to it)
SumFrom(sum, ids, records, lo, hi) ==
  IF lo > hi THEN sum
  ELSE IF lo = hi THEN Add(sum, records[ids[lo]].tokensBurned)
  ELSE The({SumFrom(s, ids, records, (lo + hi) \div 2 + 1, hi) :
            s \in {SumFrom(sum, ids, records, lo, (lo + hi) \div 2)}})

\* unsettledRecords.reduce((sum, record) => sum + record.tokensBurned, 0)
SumBurned(ids, records) == SumFrom(Zero, ids, records, 1, Len(ids))

SeqToSet(s) == {s[i] : i \in 1..Len(s)}

\* a caller reads the queue: await balanceTracker.getUnsettledRecords(limit)
unsettled(p, maxOps) ==
  /\ \E limit \in QueryLimits :
       LET r == [IdleReq EXCEPT !.op = "getUnsettledRecords"]
       IN Begin(p, [Done(r, "ok") EXCEPT
                      !.call = [limit |-> limit,
                                records |-> getUnsettledRecords(usageRecords, limit)]], maxOps)
  /\ UNCHANGED <<balances, usageRecords, priceCache, now, completed>>
  /\ UNCHANGED settleVars
  /\ UNCHANGED connVars

\* an update that also clears the amount of the records it marks
markAndClear(records, recordIds, txHash) ==
  [i \in 1..Len(records) |->
     IF i \in SeqToSet(recordIds)
       THEN [records[i] EXCEPT !.settled = TRUE, !.txHash = txHash, !.tokensBurned = Zero]
       ELSE records[i]]

\* an update that sets the flag and leaves txHash as it was
markSettledOnly(records, recordIds, txHash) ==
  [i \in 1..Len(records) |->
     IF i \in SeqToSet(recordIds) THEN [records[i] EXCEPT !.settled = TRUE] ELSE records[i]]

\* an update of whatever is unsettled when the update runs
markAllUnsettled(records, recordIds, txHash) ==
  [i \in 1..Len(records) |->
     IF ~records[i].settled
       THEN [records[i] EXCEPT !.settled = TRUE, !.txHash = txHash]
       ELSE records[i]]

\* UsageRecord.updateMany({_id: {$in: recordIds}}, {$set: {settled: true, txHash}})
markAsSettled(records, recordIds, txHash) ==
  [i \in 1..Len(records) |->
     IF i \in SeqToSet(recordIds)
       THEN [records[i] EXCEPT !.settled = TRUE, !.txHash = txHash]
       ELSE records[i]]

\* a split in whole tokens
HalfFloor(totalTokens) == Num(Floor(Div(totalTokens, Num(2))))

\* totalTokens / 2
Half(totalTokens) == Div(totalTokens, Num(2))

\* BigInt(Math.floor(amount * Math.pow(10, tokenDecimals)))
ToBaseUnits(amount, tokenDecimals) == Floor(Mul(amount, Num(Pow10(tokenDecimals))))

\* let tokenDecimals = 9, replaced by info.decimals || 9 when
\* getParsedAccountInfo answers with the parsed mint account
TokenDecimals(answer) ==
  IF answer = "parsed" /\ MintDecimals # 0 THEN MintDecimals ELSE DefaultDecimals

NoTransaction == [burn |-> 0, transfer |-> 0, instructions |-> {}]

\* a finally clause that leaves the flag as it found it
finallyKeepsFlag(held) == held

\* finally { this.isSettling = false }
finally(held) == FALSE

\* a check of the key alone
preconditionsKeyOnly(cfg) == cfg.backendWallet

\* executeOnChainSettlement: the key is loaded, the mint and the treasury are configured
preconditions(cfg) == cfg.backendWallet /\ cfg.tokenMintAddress /\ cfg.treasuryWalletAddress

IdleRun ==
  [pc |-> "idle", threshold |-> NoAmount, unsettledRecords |-> <<>>,
   burnAmount |-> Zero, treasuryAmount |-> Zero, tokenDecimals |-> DefaultDecimals,
   transaction |-> NoTransaction, txHash |-> NoSignature,
   result |-> Null, error |-> Null]

\* the locals of a call before its first await
Entered(c) == [IdleRun EXCEPT !.threshold = run[c].threshold]

Finished(r, result) == [r EXCEPT !.pc = "done", !.result = result]

\* the run throws: executeBatchSettlement logs the error and rethrows it
Failed(r, error) == [Finished(r, "SettlementFailed") EXCEPT !.error = error]

\* the first precondition of executeOnChainSettlement that does not hold
PreconditionError(cfg) ==
  IF ~cfg.backendWallet THEN "Backend wallet not loaded"
  ELSE IF ~cfg.tokenMintAddress THEN "TOKEN_MINT_ADDRESS not configured"
  ELSE "TREASURY_WALLET_ADDRESS not configured"

\* an entry that does not look at the flag
enterUnguarded(c) ==
  /\ run' = [run EXCEPT ![c] = [Entered(c) EXCEPT !.pc = "fetch"]]
  /\ isSettling' = TRUE

\* the guard of executeBatchSettlement: a call that finds a run in progress
\* returns at once, any other call takes the flag and asks for the records
enter(c) ==
  IF isSettling
    THEN /\ run' = [run EXCEPT ![c] = Finished(Entered(c), "Skipped")]
         /\ isSettling' = isSettling
    ELSE /\ run' = [run EXCEPT ![c] = [Entered(c) EXCEPT !.pc = "fetch"]]
         /\ isSettling' = TRUE

\* the scheduled timer and POST /settlement/trigger call the engine directly
executeBatchSettlement(c) ==
  /\ c \in {"timer", "manual"}
  /\ run[c].pc \in {"idle", "done"}
  /\ runs < MaxRuns
  /\ runs' = runs + 1
  /\ enter(c)
  /\ UNCHANGED <<config, settlements, custodial>>
  /\ UNCHANGED connVars
  /\ UNCHANGED ledgerVars

\* a timer that fires once
scheduledOnce ==
  /\ run["timer"].pc = "idle"
  /\ enter("timer")
  /\ UNCHANGED <<config, settlements, custodial, runs>>
  /\ UNCHANGED connVars
  /\ UNCHANGED ledgerVars

\* setInterval(..., intervalMinutes * 60 * 1000): the scheduled settlement
\* fires again and again, each time calling executeBatchSettlement
scheduled ==
  /\ run["timer"].pc \in {"idle", "done"}
  /\ enter("timer")
  /\ UNCHANGED <<config, settlements, custodial, runs>>
  /\ UNCHANGED connVars
  /\ UNCHANGED ledgerVars

\* the five-minute check: it starts by reading the unsettled records
thresholdCheck(c) ==
  /\ c = "threshold"
  /\ run[c].pc \in {"idle", "done"}
  /\ runs < MaxRuns
  /\ runs' = runs + 1
  /\ run' = [run EXCEPT ![c] = [IdleRun EXCEPT !.pc = "pending"]]
  /\ UNCHANGED <<config, isSettling, settlements, custodial>>
  /\ UNCHANGED connVars
  /\ UNCHANGED ledgerVars

\* the check sums what is pending and triggers a settlement at the threshold
thresholdDecide(c) ==
  /\ run[c].pc = "pending"
  /\ LET unsettledRecords == getUnsettledRecords(usageRecords, StatsLimit)
         pendingAmount == SumBurned(unsettledRecords, usageRecords)
     IN IF LessEq(thresholdTokens, pendingAmount)
          THEN enter(c)
          ELSE /\ run' = [run EXCEPT ![c] = Finished(IdleRun, "BelowThreshold")]
               /\ isSettling' = isSettling
  /\ UNCHANGED <<config, settlements, custodial, runs>>
  /\ UNCHANGED connVars
  /\ UNCHANGED ledgerVars

\* checkAndSettleIfNeeded(threshold) up to its read of the unsettled records
checkAndSettleIfNeeded(c) ==
  /\ c = "check"
  /\ run[c].pc \in {"idle", "done"}
  /\ runs < MaxRuns
  /\ runs' = runs + 1
  /\ \E threshold \in Thresholds :
       run' = [run EXCEPT ![c] = [IdleRun EXCEPT !.pc = "needed", !.threshold = threshold]]
  /\ UNCHANGED <<config, isSettling, settlements, custodial>>
  /\ UNCHANGED connVars
  /\ UNCHANGED ledgerVars

\* checkAndSettleIfNeeded: the sum of what is pending and the call of
\* executeBatchSettlement at the threshold
settleIfNeeded(c) ==
  /\ run[c].pc = "needed"
  /\ LET unsettledRecords == getUnsettledRecords(usageRecords, StatsLimit)
         pendingAmount == SumBurned(unsettledRecords, usageRecords)
     IN IF LessEq(run[c].threshold, pendingAmount)
          THEN enter(c)
          ELSE /\ run' = [run EXCEPT ![c] = Finished(Entered(c), "BelowThreshold")]
               /\ isSettling' = isSettling
  /\ UNCHANGED <<config, settlements, custodial, runs>>
  /\ UNCHANGED connVars
  /\ UNCHANGED ledgerVars

\* what checkAndSettleIfNeeded hands to its caller: false below the threshold,
\* true once executeBatchSettlement has returned, its error when it has thrown
Returned(r) ==
  IF r.pc # "done" \/ r.threshold = NoAmount THEN Null
  ELSE IF r.result = "BelowThreshold" THEN "false"
  ELSE IF r.result = "SettlementFailed" THEN "throws"
  ELSE "true"

\* the run reads its snapshot, computes the split and enters
\* executeOnChainSettlement, which first checks the key, the mint and the treasury
fetch(c) ==
  /\ run[c].pc = "fetch"
  /\ \E unsettledRecords \in {getUnsettledRecords(usageRecords, BatchSize)} :
     LET totalTokens == SumBurned(unsettledRecords, usageRecords)
         r == [run[c] EXCEPT !.unsettledRecords = unsettledRecords,
                             !.burnAmount = Half(totalTokens),
                             !.treasuryAmount = Half(totalTokens)]
     IN IF unsettledRecords = <<>>
          THEN /\ run' = [run EXCEPT ![c] = Finished(Entered(c), "NoRecords")]
               /\ isSettling' = finally(isSettling)
          ELSE IF ~preconditions(config)
          THEN /\ run' = [run EXCEPT ![c] = Failed(r, PreconditionError(config))]
               /\ isSettling' = finally(isSettling)
          ELSE /\ run' = [run EXCEPT ![c] = [r EXCEPT !.pc = "mint"]]
               /\ isSettling' = isSettling
  /\ UNCHANGED <<config, settlements, custodial, runs>>
  /\ UNCHANGED connVars
  /\ UNCHANGED ledgerVars

\* connection.getParsedAccountInfo(mintPublicKey) has answered with the parsed
\* mint account, with no parsed data, or by throwing (which is caught): the
\* run goes on with the decimals it read or with 9
mintInfo(c) ==
  /\ run[c].pc = "mint"
  /\ \E answer \in MintAnswers :
       run' = [run EXCEPT ![c].pc = "balance", ![c].tokenDecimals = TokenDecimals(answer)]
  /\ UNCHANGED <<config, isSettling, settlements, custodial, runs>>
  /\ UNCHANGED connVars
  /\ UNCHANGED ledgerVars

\* the transaction executeOnChainSettlement builds: a burn and a transfer, each
\* added only for a positive amount
BuildTransaction(burnAmount, treasuryAmount, tokenDecimals) ==
  [burn |-> IF Less(Zero, burnAmount) THEN ToBaseUnits(burnAmount, tokenDecimals) ELSE 0,
   transfer |-> IF Less(Zero, treasuryAmount) THEN ToBaseUnits(treasuryAmount, tokenDecimals) ELSE 0,
   instructions |-> (IF Less(Zero, burnAmount) THEN {"burn"} ELSE {})
                      \cup (IF Less(Zero, treasuryAmount) THEN {"transfer"} ELSE {})]

\* Number(account.amount) / Math.pow(10, tokenDecimals)
BackendBalance(amount, tokenDecimals) == Div(Num(amount), Num(Pow10(tokenDecimals)))

\* getAccount on the custodial token account has answered or thrown; the
\* balance it reports is compared with burnAmount + treasuryAmount and the
\* transaction is built, up to the request for a recent blockhash
checkBalance(c) ==
  /\ run[c].pc = "balance"
  /\ \E answered \in BOOLEAN :
       LET r == run[c]
           backendBalance == BackendBalance(custodial, r.tokenDecimals)
           totalNeeded == Add(r.burnAmount, r.treasuryAmount)
       IN IF ~answered
            THEN /\ run' = [run EXCEPT ![c] = Failed(r, "Backend token account not found or has no balance")]
                 /\ isSettling' = finally(isSettling)
          ELSE IF Less(backendBalance, totalNeeded)
            THEN /\ run' = [run EXCEPT ![c] = Failed(r, "Insufficient balance")]
                 /\ isSettling' = finally(isSettling)
          ELSE /\ run' = [run EXCEPT ![c].pc = "blockhash",
                                     ![c].transaction =
                                       BuildTransaction(r.burnAmount, r.treasuryAmount, r.tokenDecimals)]
               /\ isSettling' = isSettling
  /\ UNCHANGED <<config, settlements, custodial, runs>>
  /\ UNCHANGED connVars
  /\ UNCHANGED ledgerVars

\* connection.getLatestBlockhash('confirmed') has answered or thrown
latestBlockhash(c) ==
  /\ run[c].pc = "blockhash"
  /\ \E answered \in BOOLEAN :
       IF answered
         THEN /\ run' = [run EXCEPT ![c].pc = "send"]
              /\ isSettling' = isSettling
         ELSE /\ run' = [run EXCEPT ![c] = Failed(run[c], "Blockhash not available")]
              /\ isSettling' = finally(isSettling)
  /\ UNCHANGED <<config, settlements, custodial, runs>>
  /\ UNCHANGED connVars
  /\ UNCHANGED ledgerVars

\* sendAndConfirmTransaction: the transaction is confirmed, or it is rejected,
\* or it lands while the wait for its confirmation fails; the chain moves the
\* base units that the instructions name
\* (a landed transaction is kept with the ids it pays for and with the number
\* of usage records that existed when it landed: history, read by the claims)
sendAndConfirm(c) ==
  /\ run[c].pc = "send"
  /\ LET r == run[c]
         transaction == r.transaction
         signature == Len(settlements) + 1
         landed == Append(settlements, [signature |-> signature, burn |-> transaction.burn,
                                        transfer |-> transaction.transfer,
                                        instructions |-> transaction.instructions,
                                        decimals |-> r.tokenDecimals,
                                        recordIds |-> r.unsettledRecords,
                                        created |-> Len(usageRecords)])
     IN \E outcome \in {"confirmed", "rejected", "unconfirmed"} :
          IF outcome = "rejected" \/ custodial < transaction.burn + transaction.transfer
            THEN /\ run' = [run EXCEPT ![c] = Failed(r, "Transaction failed")]
                 /\ isSettling' = finally(isSettling)
                 /\ UNCHANGED <<settlements, custodial>>
          ELSE IF outcome = "unconfirmed"
            THEN /\ run' = [run EXCEPT ![c] = Failed(r, "Transaction not confirmed")]
                 /\ isSettling' = finally(isSettling)
                 /\ settlements' = landed
                 /\ custodial' = custodial - (transaction.burn + transaction.transfer)
          ELSE   /\ run' = [run EXCEPT ![c] = [r EXCEPT !.pc = "mark", !.txHash = signature]]
                 /\ isSettling' = isSettling
                 /\ settlements' = landed
                 /\ custodial' = custodial - (transaction.burn + transaction.transfer)
  /\ UNCHANGED <<config, runs>>
  /\ UNCHANGED connVars
  /\ UNCHANGED ledgerVars

\* balanceTracker.markAsSettled on the ids of the snapshot, then the finally
\* clause. updateMany writes the documents one after the other outside any
\* transaction: when it fails, the documents it had reached are updated and
\* the others are not
mark(c) ==
  /\ run[c].pc = "mark"
  /\ LET r == run[c]
     IN \E stored \in BOOLEAN, reached \in 0..Len(r.unsettledRecords) :
          IF stored
            THEN /\ reached = Len(r.unsettledRecords)
                 /\ usageRecords' = markAsSettled(usageRecords, r.unsettledRecords, r.txHash)
                 /\ run' = [run EXCEPT ![c] = Finished(r, "Committed")]
            ELSE /\ usageRecords' = markAsSettled(usageRecords, Take(r.unsettledRecords, reached), r.txHash)
                 /\ run' = [run EXCEPT ![c] = Failed(r, "Store failed")]
  /\ isSettling' = finally(isSettling)
  /\ UNCHANGED <<balances, priceCache, now, req, completed, ops>>
  /\ UNCHANGED <<config, settlements, custodial, runs>>
  /\ UNCHANGED connVars

Settle(c) ==
  \/ executeBatchSettlement(c)
  \/ thresholdCheck(c)
  \/ thresholdDecide(c)
  \/ checkAndSettleIfNeeded(c)
  \/ settleIfNeeded(c)
  \/ fetch(c)
  \/ mintInfo(c)
  \/ checkBalance(c)
  \/ latestBlockhash(c)
  \/ sendAndConfirm(c)
  \/ mark(c)

\* ---------------------------------------------------- connection manager
\* process.env.SOLANA_RPC_URL, when it is set
Primary == "primary"

fallbackUrls == <<"mainnet-beta", "alchemy", "ankr", "public-rpc">>

ConnCallers == {"constructor", "monitor", "verifier"}

\* a handle is identified by the endpoint it talks to
getRpcUrl(svc) == IF svc.useOnlyConfiguredRpc THEN Primary ELSE fallbackUrls[1]

\* 1 initial + 3 retries when configured
maxAttempts(svc) == IF svc.useOnlyConfiguredRpc THEN 4 ELSE 1

\* a tryFallback that uses the public endpoints whatever the configuration
hasConfiguredRpcNever(svc) == FALSE

\* !!process.env.SOLANA_RPC_URL?.trim()
hasConfiguredRpc(svc) == svc.useOnlyConfiguredRpc

\* a tryFallback that walks the list from its end
fallbackReversed(i) == fallbackUrls[Len(fallbackUrls) + 1 - i]

\* this.fallbackUrls[i]
fallbackAt(i) == fallbackUrls[i]

NoInit == [probes |-> <<>>, result |-> Null, adopted |-> Null]

IdleCall ==
  [op |-> "idle", pc |-> "idle", from |-> Null, attempt |-> 0, i |-> 0,
   handle |-> Null, probes |-> <<>>, start |-> 1, healthy |-> Null,
   returned |-> Null, result |-> Null, last |-> NoInit]

\* connection.getVersion() has answered or thrown
Probed(r, url, ok) == [r EXCEPT !.probes = Append(@, [url |-> url, ok |-> ok])]

\* initializeConnection up to its first await: the handle is replaced before it is probed
StartInit(r, from) ==
  [r EXCEPT !.pc = "init", !.from = from, !.attempt = 1, !.i = 0,
            !.start = Len(r.probes) + 1]

\* the probes of the call of initializeConnection that r is in
InitProbes(r) == SubSeq(r.probes, r.start, Len(r.probes))

\* initializeConnection has returned: what its caller does next with the
\* connection that the service holds then
InitReturned(r, connection) ==
  LET done == [r EXCEPT !.last = [probes |-> InitProbes(r), result |-> "ok",
                                  adopted |-> connection]]
  IN CASE r.from = "constructor" -> [done EXCEPT !.pc = "done", !.result = "connected"]
       [] r.from = "healthy" ->
            [done EXCEPT !.pc = "verify", !.healthy = "returned", !.returned = connection]
       [] OTHER -> [done EXCEPT !.pc = "done", !.result = "true"]

\* initializeConnection has thrown: the constructor logs, getConnectionHealthy
\* throws into the catch of testConnection, which reconnects once more
InitThrew(r, error) ==
  LET done == [r EXCEPT !.last = [probes |-> InitProbes(r), result |-> error,
                                  adopted |-> Null]]
  IN CASE r.from = "constructor" -> [done EXCEPT !.pc = "done", !.result = error]
       [] r.from = "healthy" -> StartInit([done EXCEPT !.healthy = "Unreachable"], "test")
       [] OTHER -> [done EXCEPT !.pc = "done", !.result = "false"]

\* the health monitor or the startup: testConnection calls getConnectionHealthy,
\* which probes the handle that the service holds
testConnection(c) ==
  /\ c = "monitor"
  /\ conn[c].pc \in {"idle", "done"}
  /\ tests < MaxTests
  /\ tests' = tests + 1
  /\ conn' = [conn EXCEPT ![c] = [IdleCall EXCEPT !.op = "testConnection", !.pc = "health",
                                                  !.handle = solanaConnection.connection]]
  /\ UNCHANGED solanaConnection
  /\ UNCHANGED ledgerVars
  /\ UNCHANGED settleVars

\* getConnectionHealthy: the health check answers and this.connection is
\* returned, or it throws and initializeConnection is called
probeCurrent(c) ==
  /\ conn[c].pc = "health"
  /\ \E ok \in BOOLEAN :
       LET r == Probed(conn[c], conn[c].handle, ok)
       IN IF ok
            THEN /\ conn' = [conn EXCEPT ![c] =
                        [r EXCEPT !.pc = "verify", !.healthy = "returned",
                                  !.returned = solanaConnection.connection]]
                 /\ UNCHANGED solanaConnection
            ELSE /\ conn' = [conn EXCEPT ![c] = StartInit(r, "healthy")]
                 /\ solanaConnection' =
                      [solanaConnection EXCEPT !.connection = getRpcUrl(solanaConnection)]
  /\ UNCHANGED tests
  /\ UNCHANGED ledgerVars
  /\ UNCHANGED settleVars

\* initializeConnection: the probe of one attempt answers or throws
probeAttempt(c) ==
  /\ conn[c].pc = "init"
  /\ \E ok \in BOOLEAN :
       LET url == getRpcUrl(solanaConnection)
           r == Probed(conn[c], url, ok)
       IN IF ok
            THEN /\ solanaConnection' = [solanaConnection EXCEPT !.rpcUrl = url, !.retryCount = 0]
                 /\ conn' = [conn EXCEPT ![c] = InitReturned(r, solanaConnection.connection)]
          ELSE IF r.attempt < maxAttempts(solanaConnection)
            THEN /\ conn' = [conn EXCEPT ![c] = [r EXCEPT !.pc = "delay"]]
                 /\ UNCHANGED solanaConnection
          ELSE IF hasConfiguredRpc(solanaConnection)
            THEN /\ conn' = [conn EXCEPT ![c] = InitThrew(r, "ConfiguredRpcFailed")]
                 /\ solanaConnection' =
                      IF r.from = "healthy"
                        THEN [solanaConnection EXCEPT !.connection = getRpcUrl(solanaConnection)]
                        ELSE solanaConnection
            ELSE /\ conn' = [conn EXCEPT ![c] = [r EXCEPT !.pc = "fallback", !.i = 1]]
                 /\ UNCHANGED solanaConnection
  /\ UNCHANGED tests
  /\ UNCHANGED ledgerVars
  /\ UNCHANGED settleVars

\* initializeConnection: the backoff delay is over, the next attempt replaces the handle
retry(c) ==
  /\ conn[c].pc = "delay"
  /\ conn' = [conn EXCEPT ![c] = [conn[c] EXCEPT !.pc = "init", !.attempt = @ + 1]]
  /\ solanaConnection' = [solanaConnection EXCEPT !.connection = getRpcUrl(solanaConnection)]
  /\ UNCHANGED tests
  /\ UNCHANGED ledgerVars
  /\ UNCHANGED settleVars

\* tryFallback: the probe of one fallback endpoint answers or throws
probeFallback(c) ==
  /\ conn[c].pc = "fallback"
  /\ \E ok \in BOOLEAN :
       LET url == fallbackAt(conn[c].i)
           r == Probed(conn[c], url, ok)
       IN IF ok
            THEN /\ solanaConnection' =
                      [solanaConnection EXCEPT !.connection = url, !.rpcUrl = url,
                                               !.currentUrlIndex = r.i - 1, !.retryCount = 0]
                 /\ conn' = [conn EXCEPT ![c] = InitReturned(r, url)]
          ELSE IF r.i < Len(fallbackUrls)
            THEN /\ conn' = [conn EXCEPT ![c] = [r EXCEPT !.i = @ + 1]]
                 /\ UNCHANGED solanaConnection
            ELSE /\ conn' = [conn EXCEPT ![c] = InitThrew(r, "AllEndpointsUnreachable")]
                 /\ solanaConnection' =
                      IF r.from = "healthy"
                        THEN [solanaConnection EXCEPT !.connection = getRpcUrl(solanaConnection)]
                        ELSE solanaConnection
  /\ UNCHANGED tests
  /\ UNCHANGED ledgerVars
  /\ UNCHANGED settleVars

\* testConnection: connection.getVersion() on the handle that getConnectionHealthy
\* returned answers, or throws and initializeConnection is called
verifyHandle(c) ==
  /\ conn[c].pc = "verify"
  /\ \E ok \in BOOLEAN :
       LET r == Probed(conn[c], conn[c].returned, ok)
       IN IF ok
            THEN /\ conn' = [conn EXCEPT ![c] = [r EXCEPT !.pc = "done", !.result = "true"]]
                 /\ solanaConnection' = [solanaConnection EXCEPT !.retryCount = 0]
            ELSE /\ conn' = [conn EXCEPT ![c] = StartInit(r, "test")]
                 /\ solanaConnection' =
                      [solanaConnection EXCEPT !.connection = getRpcUrl(solanaConnection)]
  /\ UNCHANGED tests
  /\ UNCHANGED ledgerVars
  /\ UNCHANGED settleVars

\* the verifier or a route: solanaConnection.getConnection()
getConnection(c) ==
  /\ c = "verifier"
  /\ conn' = [conn EXCEPT ![c] = [IdleCall EXCEPT !.op = "getConnection", !.pc = "done",
                                                  !.returned = solanaConnection.connection]]
  /\ UNCHANGED <<solanaConnection, tests>>
  /\ UNCHANGED ledgerVars
  /\ UNCHANGED settleVars

\* the awaits of a caller of the connection service: each of them resolves or rejects
Await(c) ==
  probeCurrent(c) \/ probeAttempt(c) \/ retry(c) \/ probeFallback(c) \/ verifyHandle(c)

\* a service that is connected to its configured endpoint, with nobody calling
Connected ==
  /\ solanaConnection = [useOnlyConfiguredRpc |-> TRUE, connection |-> Primary,
                         rpcUrl |-> Primary, currentUrlIndex |-> 0, retryCount |-> 0]
  /\ conn = [c \in ConnCallers |-> IdleCall]
  /\ tests = 0

\* the service as its constructor leaves it: initializeConnection has replaced
\* the handle and waits for its first probe
Constructed ==
  /\ \E envUrl \in BOOLEAN :
       LET svc == [useOnlyConfiguredRpc |-> envUrl, connection |-> Null,
                   rpcUrl |-> Null, currentUrlIndex |-> 0, retryCount |-> 0]
       IN solanaConnection = [svc EXCEPT !.connection = getRpcUrl(svc), !.rpcUrl = getRpcUrl(svc)]
  /\ conn = [c \in ConnCallers |->
               IF c = "constructor"
                 THEN StartInit([IdleCall EXCEPT !.op = "initializeConnection"], "constructor")
                 ELSE IdleCall]
  /\ tests = 0

\* the document that recordDeposit(amount, txHash) leaves
Deposited(doc, amount, txHash) ==
  Save(doc, doc, creditDoc(doc, amount),
       [type |-> "deposit", amount |-> amount, txHash |-> txHash])

\* the document that deductTokens(amount) leaves
Debited(doc, amount) ==
  Save(doc, doc, debitDoc(doc, amount),
       [type |-> "usage", amount |-> Neg(amount), txHash |-> Null])

RECURSIVE DebitedTimes(_, _, _)
\* the document after n debits of the same amount, one after the other
DebitedTimes(doc, amount, n) ==
  IF n = 0 THEN doc
  ELSE IF n = 1 THEN Debited(doc, amount)
  ELSE The({DebitedTimes(d, amount, n - n \div 2) : d \in {DebitedTimes(doc, amount, n \div 2)}})

\* the usage record of a chat of $0.02 debited at time t, priced at $0.10
ChatRecord(w, amount, t) ==
  NewUsageRecord([walletAddress |-> w, requestType |-> "chat", usdCost |-> Usd(2),
                  amount |-> amount], Usd(10), t)

NoHistory == [deposits |-> <<>>, debits |-> <<>>]

InitSettlement ==
  /\ config \in [backendWallet : BOOLEAN, tokenMintAddress : BOOLEAN, treasuryWalletAddress : BOOLEAN]
  /\ isSettling = FALSE
  /\ run = [c \in Callers |-> IdleRun]
  /\ settlements = <<>>
  /\ custodial = CustodialInit
  /\ runs = 0

Init ==
  /\ balances = [w \in Wallets |-> NoDoc]
  /\ usageRecords = <<>>
  /\ priceCache = <<>>
  /\ now = 0
  /\ req = [p \in Procs |-> IdleReq]
  /\ completed = [w \in Wallets |-> NoHistory]
  /\ ops = 0
  /\ InitSettlement
  /\ Connected
  /\ preconditions(config)

\* the ledger after T1 was credited to W1 and one price sample was fetched
InitFunded ==
  /\ balances = [w \in Wallets |->
       IF w = "W1" THEN Deposited(ZeroDoc, Amount(10), "T1") ELSE NoDoc]
  /\ usageRecords = <<>>
  /\ priceCache = <<[price |-> Usd(10), timestamp |-> 0]>>
  /\ now = 0
  /\ req = [p \in Procs |-> IdleReq]
  /\ completed = [w \in Wallets |->
       IF w = "W1" THEN [deposits |-> <<Amount(10)>>, debits |-> <<>>] ELSE NoHistory]
  /\ ops = 0
  /\ InitSettlement
  /\ Connected

\* the ledger after W1 spent its deposit of 0.001 token in a debit of 0.0003
\* and one of 0.0007 that are not settled yet
InitPending ==
  /\ balances = [w \in Wallets |->
       IF w = "W1"
         THEN Debited(Debited(Deposited(ZeroDoc, Amount(10), "T1"), Amount(3)), Amount(7))
         ELSE NoDoc]
  /\ usageRecords = <<ChatRecord("W1", Amount(3), 0), ChatRecord("W1", Amount(7), 0)>>
  /\ priceCache = <<[price |-> Usd(10), timestamp |-> 0]>>
  /\ now = 0
  /\ req = [p \in Procs |-> IdleReq]
  /\ completed = [w \in Wallets |->
       IF w = "W1" THEN [deposits |-> <<Amount(10)>>, debits |-> <<Amount(3), Amount(7)>>]
       ELSE NoHistory]
  /\ ops = 0
  /\ InitSettlement
  /\ Connected

\* the ledger after W1 deposited the ten tokens of T10 and made n debits of 0.0003 token,
\* none settled yet
InitBacklog ==
  \E n \in Backlogs :
    /\ balances = [w \in Wallets |->
         IF w = "W1"
           THEN DebitedTimes(Deposited(ZeroDoc, Num(10), "T10"), Amount(3), n)
           ELSE NoDoc]
    /\ usageRecords = [i \in 1..n |-> ChatRecord("W1", Amount(3), 0)]
    /\ priceCache = <<[price |-> Usd(10), timestamp |-> 0]>>
    /\ now = 0
    /\ req = [p \in Procs |-> IdleReq]
    /\ completed = [w \in Wallets |->
         IF w = "W1" THEN [deposits |-> <<Num(10)>>, debits |-> [i \in 1..n |-> Amount(3)]]
         ELSE NoHistory]
    /\ ops = 0
    /\ InitSettlement
    /\ Connected
    /\ preconditions(config)

\* the oracle after at most two samples, read at once or after the window
InitBurn ==
  /\ balances = [w \in Wallets |-> NoDoc]
  /\ usageRecords = <<>>
  /\ \E n \in 0..2 : priceCache \in [1..n -> [price : BurnPrices, timestamp : {0}]]
  /\ now \in Times
  /\ req = [p \in Procs |-> IdleReq]
  /\ completed = [w \in Wallets |-> NoHistory]
  /\ ops = 0
  /\ InitSettlement
  /\ Connected
  /\ preconditions(config)

\* an empty oracle at time 0
InitOracle ==
  /\ balances = [w \in Wallets |-> NoDoc]
  /\ usageRecords = <<>>
  /\ priceCache = <<>>
  /\ now = 0
  /\ req = [p \in Procs |-> IdleReq]
  /\ completed = [w \in Wallets |-> NoHistory]
  /\ ops = 0
  /\ InitSettlement
  /\ Connected
  /\ preconditions(config)

\* the scenario's start: no wallet has a balance document, the oracle holds one
\* sample of $0.10, the settlement engine is
\* configured and its custodial account holds the tokens of the deposit
InitScenario ==
  /\ balances = [w \in Wallets |-> NoDoc]
  /\ usageRecords = <<>>
  /\ priceCache = <<[price |-> Usd(10), timestamp |-> 0]>>
  /\ now = 0
  /\ req = [p \in Procs |-> IdleReq]
  /\ completed = [w \in Wallets |-> NoHistory]
  /\ ops = 0
  /\ config = [backendWallet |-> TRUE, tokenMintAddress |-> TRUE, treasuryWalletAddress |-> TRUE]
  /\ isSettling = FALSE
  /\ run = [c \in Callers |-> IdleRun]
  /\ settlements = <<>>
  /\ custodial = 10 * Pow10(MintDecimals)
  /\ runs = 0
  /\ Connected

\* a queue of n usage records of 0.0003 token that wait to be settled, debited
\* from the deposit of the ten tokens of T10: created one per millisecond, or two per
\* millisecond, or with neighbours stored in the reverse order of their
\* timestamps (the long queue is of this kind); the custodial account can pay
\* for them
InitQueue ==
  \E n \in QueueSizes, order \in QueueOrders :
    /\ n > BatchSize => order = "swapped"
    /\ balances = [w \in Wallets |->
         IF w = "W1"
           THEN DebitedTimes(Deposited(ZeroDoc, Num(10), "T10"), Amount(3), n)
           ELSE NoDoc]
    /\ usageRecords =
         [i \in 1..n |->
            ChatRecord("W1", Amount(3),
                       CASE order = "distinct" -> i
                         [] order = "ties" -> i \div 2
                         [] OTHER -> IF i % 2 = 1 THEN i + 1 ELSE i - 1)]
    /\ priceCache = <<[price |-> Usd(10), timestamp |-> 0]>>
    /\ now = n + 1
    /\ req = [p \in Procs |-> IdleReq]
    /\ completed = [w \in Wallets |->
         IF w = "W1" THEN [deposits |-> <<Num(10)>>, debits |-> [i \in 1..n |-> Amount(3)]]
         ELSE NoHistory]
    /\ ops = 0
    /\ config = [backendWallet |-> TRUE, tokenMintAddress |-> TRUE, treasuryWalletAddress |-> TRUE]
    /\ isSettling = FALSE
    /\ run = [c \in Callers |-> IdleRun]
    /\ settlements = <<>>
    /\ custodial = 10 * Pow10(MintDecimals)
    /\ runs = 0
    /\ Connected

\* a wallet that deposited the ten tokens of T10, after n debits of 0.0003 token whose
\* records wait to be settled; the engine is configured and its custodial
\* account can pay
InitLive ==
  \E n \in LiveQueues :
    /\ balances = [w \in Wallets |->
         IF w = "W1"
           THEN DebitedTimes(Deposited(ZeroDoc, Num(10), "T10"), Amount(3), n)
           ELSE NoDoc]
    /\ usageRecords = [i \in 1..n |-> ChatRecord("W1", Amount(3), i)]
    /\ priceCache = <<[price |-> Usd(10), timestamp |-> 0]>>
    /\ now = n + 1
    /\ req = [p \in Procs |-> IdleReq]
    /\ completed = [w \in Wallets |->
         IF w = "W1" THEN [deposits |-> <<Num(10)>>, debits |-> [i \in 1..n |-> Amount(3)]]
         ELSE NoHistory]
    /\ ops = 0
    /\ config = [backendWallet |-> TRUE, tokenMintAddress |-> TRUE, treasuryWalletAddress |-> TRUE]
    /\ isSettling = FALSE
    /\ run = [c \in Callers |-> IdleRun]
    /\ settlements = <<>>
    /\ custodial = 10 * Pow10(MintDecimals)
    /\ runs = 0
    /\ Connected

\* one request at a time
NextSeq == fetchCurrentPrice \/ \E p \in SeqProcs : Request(p, MaxSeqOps)

\* requests of two clients interleave
Next == fetchCurrentPrice \/ \E p \in Procs : Request(p, MaxOps)

\* the settlement callers interleave with each other and with the debits of one client
NextSettle ==
  \/ \E c \in Callers : Settle(c)
  \/ \E p \in SeqProcs : Debit(p, MaxSettleOps)

SpecSeq == Init /\ [][NextSeq]_vars

Spec == Init /\ [][Next]_vars

SpecSettle == InitFunded /\ [][NextSettle]_vars

\* the awaits of a run: each of them resolves or rejects
Progress(c) ==
  \/ fetch(c)
  \/ mintInfo(c)
  \/ checkBalance(c)
  \/ latestBlockhash(c)
  \/ sendAndConfirm(c)
  \/ mark(c)

\* deposit requests whose body carries any number as its amount and names any
\* confirmed transaction that touches a token account of the wallet, and
\* debits, one request at a time
NextDeposits ==
  \/ fetchCurrentPrice
  \/ \E p \in SeqProcs :
       \/ postDeposit(p, MaxSeqOps, SignedAmounts, TxIds \cup {"T4"})
       \/ depositPay(p, MaxSeqOps)
       \/ depositScan(p, MaxSeqOps)
       \/ deductTokens(p, MaxSeqOps)
       \/ dupCheck(p)
       \/ scanVerified(p)
       \/ findOne(p)
       \/ create(p)
       \/ saveDeposit(p)
       \/ saveDebit(p)
       \/ recordUsage(p)

SpecDeposits == Init /\ [][NextDeposits]_vars

\* an await of the scheduled run resolves or rejects; the chain and the store
\* eventually succeed: a transaction that lands while its run fails (the
\* confirmation is lost, or the store fails after it) happens MaxLost times at
\* most, and a store that fails has written none of the documents, one of
\* them, or all but one
settles ==
  /\ Progress("timer")
  /\ run'["timer"].error \in {"Transaction not confirmed", "Store failed"}
       => Len(settlements') <= MaxLost
  /\ run'["timer"].error = "Store failed"
       => Cardinality({i \in Ids(usageRecords) : usageRecords'[i] # usageRecords[i]})
            \in {0, 1, Len(run["timer"].unsettledRecords) - 1}

\* the scheduled settlement while debits arrive
NextLive ==
  \/ scheduled
  \/ settles
  \/ \E p \in SeqProcs : Debit(p, MaxArrivals)

\* the timer keeps firing, every await of a run ends, and neither the reads
\* of the chain (the mint, the custodial account, the blockhash) nor the
\* submission nor the store update fail forever
SpecLive ==
  /\ InitLive /\ [][NextLive]_vars
  /\ WF_vars(scheduled)
  /\ WF_vars(settles)
  /\ SF_vars(settles /\ run'["timer"].pc = "balance" /\ run'["timer"].tokenDecimals = MintDecimals)
  /\ SF_vars(settles /\ run'["timer"].pc = "blockhash")
  /\ SF_vars(settles /\ run'["timer"].pc = "send")
  /\ SF_vars(settles /\ run'["timer"].pc = "mark")
  /\ SF_vars(settles /\ run'["timer"].result = "Committed")

\* reads of the queue while the settlement callers run
NextQueue ==
  \/ executeBatchSettlement("timer")
  \/ Progress("timer")
  \/ \E p \in SeqProcs : unsettled(p, MaxQueries)

SpecQueue == InitQueue /\ [][NextQueue]_vars

\* deposits of T10, chats through either build of the chat route and scheduled
\* settlement runs, one request at a time
NextScenario ==
  \/ \E p \in SeqProcs :
       \/ postDeposit(p, MaxSeqOps, ScenarioAmounts, {"T10"})
       \/ chat(p, MaxSeqOps)
       \/ reply(p)
       \/ message(p, MaxSeqOps)
       \/ messageReply(p)
       \/ recordUsageFromMetrics(p)
       \/ dupCheck(p)
       \/ findOne(p)
       \/ create(p)
       \/ saveDeposit(p)
       \/ saveDebit(p)
       \/ recordUsage(p)
  \/ executeBatchSettlement("timer")
  \/ Progress("timer")

SpecScenario == InitScenario /\ [][NextScenario]_vars

\* a direct call balanceTracker.markAsSettled(recordIds, txHash): the ids of the
\* first n records, or of the last one, with the id of a settlement transaction
callMarkAsSettled ==
  /\ \E n \in 0..Len(usageRecords), last \in BOOLEAN, txHash \in Signatures :
       LET recordIds == IF last /\ n > 0 THEN <<Len(usageRecords)>>
                        ELSE [i \in 1..n |-> i]
       IN usageRecords' = markAsSettled(usageRecords, recordIds, txHash)
  /\ UNCHANGED <<balances, priceCache, now, req, completed, ops>>
  /\ UNCHANGED settleVars
  /\ UNCHANGED connVars

\* markAsSettled called on the records that the debits of one client leave
NextMark == callMarkAsSettled \/ \E p \in SeqProcs : Debit(p, MaxSettleOps)

InitMark == InitFunded /\ preconditions(config)

SpecMark == InitMark /\ [][NextMark]_vars

\* requests that price a cost while the oracle fetches
NextBurn == fetchCurrentPrice \/ \E p \in SeqProcs : requiredTokens(p, MaxSeqOps)

SpecBurn == InitBurn /\ [][NextBurn]_vars

\* verifications of the transactions that the chain can answer with
InitVerify ==
  /\ balances = [w \in Wallets |-> NoDoc]
  /\ usageRecords = <<>>
  /\ priceCache = <<>>
  /\ now = 0
  /\ \E c \in VerifierCalls :
       req = [p \in Procs |->
                IF p \in SeqProcs
                  THEN [IdleReq EXCEPT !.op = "verifyDepositTransaction", !.pc = "called", !.call = c]
                  ELSE IdleReq]
  /\ completed = [w \in Wallets |-> NoHistory]
  /\ ops = 0
  /\ InitSettlement
  /\ Connected
  /\ preconditions(config)

NextVerify == \E p \in SeqProcs : verify(p)

SpecVerify == InitVerify /\ [][NextVerify]_vars

\* the connection service from its construction on, with the health monitor
\* and the callers of getConnection
InitConn ==
  /\ balances = [w \in Wallets |-> NoDoc]
  /\ usageRecords = <<>>
  /\ priceCache = <<>>
  /\ now = 0
  /\ req = [p \in Procs |-> IdleReq]
  /\ completed = [w \in Wallets |-> NoHistory]
  /\ ops = 0
  /\ InitSettlement
  /\ preconditions(config)
  /\ Constructed

NextConn == \E c \in ConnCallers : testConnection(c) \/ Await(c) \/ getConnection(c)

SpecConn == InitConn /\ [][NextConn]_vars /\ \A c \in ConnCallers : WF_vars(Await(c))

\* reads of the oracle while it fetches and time passes
NextOracle ==
  \/ tick
  \/ \E p \in SeqProcs :
       \/ priceCached(p, MaxSeqOps)
       \/ priceFetch(p, MaxSeqOps)
       \/ priceTwap(p, MaxSeqOps)

SpecOracle == InitOracle /\ [][NextOracle]_vars

\* checkAndSettleIfNeeded and the direct calls of executeBatchSettlement
NextCheck ==
  \E c \in Callers :
    \/ checkAndSettleIfNeeded(c)
    \/ settleIfNeeded(c)
    \/ executeBatchSettlement(c)
    \/ Progress(c)

SpecCheck == InitBacklog /\ [][NextCheck]_vars

\* the settlement callers alone, over records that wait to be settled
NextRuns == \E c \in Callers : Settle(c)

SpecRuns == InitPending /\ [][NextRuns]_vars /\ \A c \in Callers : WF_vars(Progress(c))

\* ================================================================ claims
ViewOf(doc) == IF doc = NoDoc THEN ZeroDoc ELSE doc

RECURSIVE CountDeposits(_, _)
\* number of deposit entries of a log that reference txHash
CountDeposits(log, txHash) ==
  IF log = <<>> THEN 0
  ELSE (IF Head(log).type = "deposit" /\ Head(log).txHash = txHash THEN 1 ELSE 0)
       + CountDeposits(Tail(log), txHash)

RECURSIVE SumOver(_, _)
SumOver(S, f) ==
  IF S = {} THEN 0 ELSE LET x == CHOOSE y \in S : TRUE IN f[x] + SumOver(S \ {x}, f)

\* number of deposit entries, over all wallets, that reference txHash
DepositEntries(txHash) ==
  SumOver(Wallets, [w \in Wallets |-> CountDeposits(ViewOf(balances[w]).transactions, txHash)])

RECURSIVE Total(_)
\* the sum of a list of amounts, added one after the other from 0
Total(amounts) ==
  IF amounts = <<>> THEN Zero
  ELSE Add(Total(SubSeq(amounts, 1, Len(amounts) - 1)), amounts[Len(amounts)])

RECURSIVE BurnedBy(_, _)
\* sum of tokensBurned over the usage records of wallet w, in their order
BurnedBy(records, w) ==
  IF records = <<>> THEN Zero
  ELSE LET rest == BurnedBy(SubSeq(records, 1, Len(records) - 1), w)
           last == records[Len(records)]
       IN IF last.walletAddress = w THEN Add(rest, last.tokensBurned) ELSE rest

\* C1: after any sequence of getBalance, recordDeposit and deductTokens calls,
\* successful or failed, every wallet's stored currentBalance equals its
\* depositedAmount minus its consumedAmount.
C1_BalanceEquation ==
  \A w \in Wallets :
    balances[w] # NoDoc =>
      balances[w].currentBalance = Sub(balances[w].depositedAmount, balances[w].consumedAmount)

\* some entry of some wallet's log references txHash
TxHashRecorded(txHash) ==
  \E w \in Wallets :
    \E i \in 1..Len(ViewOf(balances[w]).transactions) :
      ViewOf(balances[w]).transactions[i].txHash = txHash

\* C2: a deposit request whose duplicate check finds its txHash in the entry
\* log of any wallet fails with DuplicateTransaction and changes no wallet, so
\* replaying a txHash credits a balance exactly once: no txHash is referenced
\* by two deposit entries.
C2_ReplayRejected ==
  [][/\ \A p \in Procs :
          (/\ req[p].pc = "dupCheck"
           /\ req[p].op \in {"deposit", "depositPay"}
           /\ req'[p] # req[p]
           /\ TxHashRecorded(req[p].txHash))
          => (/\ req'[p].pc = "done"
              /\ req'[p].result = "DuplicateTransaction"
              /\ balances' = balances)
     /\ \A t \in TxIds : DepositEntries(t)' <= 1]_vars

\* a replay to another wallet was rejected after the first deposit was credited
C2_Witness ==
  \E p \in Procs :
    /\ req[p].pc = "done"
    /\ req[p].result = "DuplicateTransaction"
    /\ req[p].walletAddress = "W1"
    /\ DepositEntries("T2") = 1
    /\ balances["W2"] # NoDoc
    /\ balances["W2"].depositedAmount = Amount(10)

\* C3: deductTokens never overdraws: the debits that succeeded on a wallet
\* never add up to more than was deposited to it, and currentBalance is never
\* negative.
C3_DebitsFit ==
  \A w \in Wallets :
    /\ LessEq(Total(completed[w].debits), Total(completed[w].deposits))
    /\ LessEq(Zero, ViewOf(balances[w]).currentBalance)

\* the deposits and the debits of wallet w whose save succeeded
Saved(w) ==
  [i \in 1..Len(completed[w].deposits) |-> [type |-> "deposit", amount |-> completed[w].deposits[i]]]
    \o [i \in 1..Len(completed[w].debits) |-> [type |-> "usage", amount |-> completed[w].debits[i]]]

RECURSIVE Replayed(_, _, _)
\* the document that the first n calls of a list, made in the given order one
\* after the other, leave of the zeroed document
Replayed(calls, order, n) ==
  IF n = 0 THEN ZeroDoc
  ELSE LET doc == Replayed(calls, order, n - 1)
           call == calls[order[n]]
       IN IF call.type = "deposit" THEN creditDoc(doc, call.amount) ELSE debitDoc(doc, call.amount)

\* C4: the amounts of a wallet are those of some sequential execution of the
\* deposits and debits that were saved: none of them is lost.
C4_Serialized ==
  \A w \in Wallets :
    \E order \in Permutations(1..Len(Saved(w))) :
      LET doc == Replayed(Saved(w), order, Len(Saved(w)))
      IN /\ ViewOf(balances[w]).depositedAmount = doc.depositedAmount
         /\ ViewOf(balances[w]).consumedAmount = doc.consumedAmount
         /\ ViewOf(balances[w]).currentBalance = doc.currentBalance

\* C5: deductTokens is all-or-nothing: once no call on a wallet is between its
\* save and its usage record, the wallet's consumedAmount equals the sum of
\* tokensBurned over its usage records.
C5_AllOrNothing ==
  \A w \in Wallets :
    (\A p \in Procs : ~(req[p].pc = "usage" /\ req[p].walletAddress = w))
      => ViewOf(balances[w]).consumedAmount = BurnedBy(usageRecords, w)

\* C6: when deductTokens has read the wallet's balance, it fails with
\* InsufficientBalance and changes no amount, no log entry and no usage record
\* if currentBalance is smaller than the amount, and goes on to the debit if
\* currentBalance is greater than or equal to the amount.
C6_InsufficientBalance ==
  [][\A p \in Procs :
       LET r == req[p]
           w == r.walletAddress
       IN (/\ r.op = "deductTokens"
           /\ req'[p] # r
           /\ \/ r.pc = "findOne" /\ balances[w] # NoDoc
              \/ r.pc = "create" /\ balances[w] = NoDoc)
          => IF Less(ViewOf(balances[w]).currentBalance, r.amount)
               THEN /\ req'[p].pc = "done"
                    /\ req'[p].result = "InsufficientBalance"
                    /\ ViewOf(balances'[w]) = ViewOf(balances[w])
                    /\ usageRecords' = usageRecords
               ELSE /\ req'[p].pc = "save"
                    /\ req'[p].result # "InsufficientBalance"]_vars

\* a debit of the whole balance went through, and a later one was refused
C6_Witness ==
  \E p \in Procs :
    /\ req[p].result = "InsufficientBalance"
    /\ balances["W1"] # NoDoc
    /\ balances["W1"].currentBalance = Zero
    /\ balances["W1"].consumedAmount = Amount(10)

\* C7: across all wallets a txHash is referenced by at most one deposit entry.
C7_OneEntryPerTxHash ==
  \A t \in TxIds : DepositEntries(t) <= 1

\* the verification a deposit request in flight was admitted with
VerificationOf(r) ==
  CASE r.op = "deposit" ->
         verifyDepositTransaction(r.txHash, r.walletAddress, r.amount, TokenMint, Null)
    [] r.op = "depositPay" ->
         verifyDepositTransaction(r.txHash, TreasuryAta, r.amount, TokenMint, r.walletAddress)
    [] OTHER ->
         verifyDepositTransaction(r.txHash, r.walletAddress, NoAmount, TokenMint, Null)

\* C8: whenever a deposit is credited, on any deposit path, the entry appended
\* and the amount credited are the verifier's actualAmount for the transaction.
C8_CreditIsActualAmount ==
  [][\A p \in Procs :
       LET r == req[p]
           w == r.walletAddress
       IN (/\ r.pc = "save"
           /\ r.op \in {"deposit", "depositPay", "depositScan"}
           /\ balances'[w] # balances[w])
          => LET log == balances'[w].transactions
             IN /\ VerificationOf(r).isValid
                /\ log[Len(log)].amount = VerificationOf(r).actualAmount
                /\ completed'[w].deposits
                     = Append(completed[w].deposits, VerificationOf(r).actualAmount)]_vars

InFlight == {"fetch", "mint", "balance", "blockhash", "send", "mark"}

\* C9: a call of executeBatchSettlement that finds a run in progress returns at
\* once, submits no transaction and changes no record; at most one run is
\* between taking and releasing the flag, and the flag is set exactly then.
C9_MutualExclusion ==
  [][/\ \A c \in Callers :
          (/\ run[c].pc \in {"idle", "done", "pending", "needed"}
           /\ run'[c] # run[c]
           /\ run'[c].pc \notin {"pending", "needed"}
           /\ run'[c].result # "BelowThreshold"
           /\ isSettling)
          => (/\ run'[c].pc = "done"
              /\ run'[c].result = "Skipped"
              /\ UNCHANGED <<usageRecords, settlements, custodial, isSettling>>)
     /\ Cardinality({c \in Callers : run'[c].pc \in InFlight}) <= 1
     /\ isSettling' <=> (\E c \in Callers : run'[c].pc \in InFlight)]_vars

\* a call was skipped while the run of another caller was about to send
C9_Witness ==
  \E c, d \in Callers :
    /\ run[c].pc = "done" /\ run[c].result = "Skipped"
    /\ run[d].pc = "send"

\* C10: after a successful run over records whose tokensBurned sum to T,
\* burnAmount and treasuryAmount are each T/2 and add up to T, the one
\* transaction of the run carries the burn and the transfer, and every fetched
\* record is settled with the id of that transaction.
C10_SuccessfulRun ==
  \A c \in Callers :
    run[c].result = "Committed" =>
      LET r == run[c]
          T == SumBurned(r.unsettledRecords, usageRecords)
      IN /\ r.burnAmount = Div(T, Num(2))
         /\ r.treasuryAmount = Div(T, Num(2))
         /\ Add(r.burnAmount, r.treasuryAmount) = T
         /\ r.txHash \in 1..Len(settlements)
         /\ settlements[r.txHash].instructions = {"burn", "transfer"}
         /\ settlements[r.txHash].burn = ToBaseUnits(r.burnAmount, r.tokenDecimals)
         /\ settlements[r.txHash].transfer = ToBaseUnits(r.treasuryAmount, r.tokenDecimals)
         /\ \A i \in 1..Len(settlements) :
              settlements[i].signature = r.txHash => i = r.txHash
         /\ \A id \in SeqToSet(r.unsettledRecords) :
              usageRecords[id].settled /\ usageRecords[id].txHash = r.txHash

\* a run committed a batch of two records of 0.0003 token
C10_Witness ==
  \E c \in Callers :
    /\ run[c].result = "Committed"
    /\ Len(run[c].unsettledRecords) = 2
    /\ run[c].burnAmount = Amount(3)
    /\ run[c].treasuryAmount = Amount(3)
    /\ \A id \in SeqToSet(run[c].unsettledRecords) : usageRecords[id].settled

\* the landed settlement transactions that carry the tokens of a record
SettlementsOf(id) ==
  {k \in 1..Len(settlements) : id \in SeqToSet(settlements[k].recordIds)}

\* C11: a settlement run that ends in failure has not committed a part of its
\* snapshot: the records it fetched are all unsettled, or all settled with one
\* transaction id.
C11_NoPartialCommit ==
  \A c \in Callers :
    (run[c].pc = "done" /\ run[c].result = "SettlementFailed") =>
      LET fetched == SeqToSet(run[c].unsettledRecords)
      IN \/ \A id \in fetched : ~usageRecords[id].settled
         \/ \E txHash \in 1..Len(settlements) :
              \A id \in fetched : usageRecords[id].settled /\ usageRecords[id].txHash = txHash

\* C12: the tokens of a usage record are carried by at most one settlement
\* transaction that landed on the chain, whatever runs failed in between.
C12_SettledOnce ==
  \A id \in Ids(usageRecords) : Cardinality(SettlementsOf(id)) <= 1

\* C13: whenever a call that took the flag ends, by a return or by a throw, the
\* flag is false again; a call is skipped only while another run is in flight;
\* and every run that holds the flag gives it back.
C13_FlagReleased ==
  /\ [][\A c \in Callers :
          /\ (run[c].pc \in InFlight /\ run'[c].pc = "done") => ~isSettling'
          /\ (run'[c] # run[c] /\ run'[c].result = "Skipped") =>
                \E d \in Callers \ {c} : run[d].pc \in InFlight]_vars
  /\ (isSettling ~> ~isSettling)

\* a run has failed and a later call has taken the flag
C13_Witness ==
  \E c, d \in Callers :
    /\ run[c].pc = "done" /\ run[c].result = "SettlementFailed"
    /\ run[d].pc = "fetch"
    /\ isSettling

\* C14: a settled record stays settled and keeps the transaction id it was
\* given; settlement writes to a record once, and records are never removed.
C14_SettledMonotonic ==
  [][/\ Len(usageRecords') >= Len(usageRecords)
     /\ \A id \in Ids(usageRecords) :
          /\ usageRecords[id].settled =>
                usageRecords'[id] = usageRecords[id]
          /\ usageRecords'[id] # usageRecords[id] =>
                /\ ~usageRecords[id].settled /\ usageRecords[id].txHash = NoSignature
                /\ usageRecords'[id] = [usageRecords[id] EXCEPT !.settled = TRUE,
                                                               !.txHash = usageRecords'[id].txHash]
                /\ usageRecords'[id].txHash # NoSignature]_vars

\* two runs have settled: the record of the first kept its transaction id
\* while the second run marked another record
C14_Witness ==
  \E i, j \in Ids(usageRecords) :
    /\ usageRecords[i].settled /\ usageRecords[j].settled
    /\ usageRecords[i].txHash # usageRecords[j].txHash

\* C15: markAsSettled leaves a record that is already settled as it is, also
\* when the call carries another transaction id, and a second call with the
\* same arguments changes nothing.
C15_MarkIdempotent ==
  [][/\ \A id \in Ids(usageRecords) :
          usageRecords[id].settled => usageRecords'[id] = usageRecords[id]
     /\ \A n \in 0..Len(usageRecords), txHash \in Signatures :
          LET recordIds == [i \in 1..n |-> i]
              once == markAsSettled(usageRecords, recordIds, txHash)
          IN markAsSettled(once, recordIds, txHash) = once]_vars

Unsettled == {id \in Ids(usageRecords) : ~usageRecords[id].settled}

\* C16: a run works on the records it fetched. Its amounts are those of the
\* snapshot, its transaction pays for the snapshot, and its markAsSettled
\* writes the fetched ids only: a record created while the run is in flight is
\* left as it is, unsettled, and a fetch returns every unsettled record (up to
\* the batch size), so the next run picks it up.
C16_Snapshot ==
  [][\A c \in Callers :
       /\ (run[c].pc = "fetch" /\ run'[c].pc # "fetch" /\ Cardinality(Unsettled) <= BatchSize)
             => SeqToSet(run'[c].unsettledRecords) = Unsettled
       /\ run'[c].pc \in {"mint", "balance", "blockhash", "send", "mark"} =>
             /\ run'[c].burnAmount = Half(SumBurned(run'[c].unsettledRecords, usageRecords'))
             /\ run'[c].treasuryAmount = Half(SumBurned(run'[c].unsettledRecords, usageRecords'))
       /\ (run[c].pc = "send" /\ settlements' # settlements) =>
             settlements'[Len(settlements')].recordIds = run[c].unsettledRecords
       /\ (run[c].pc = "mark" /\ run'[c].pc = "done") =>
             /\ \A id \in Ids(usageRecords) \ SeqToSet(run[c].unsettledRecords) :
                  usageRecords'[id] = usageRecords[id]
             /\ run'[c].result = "Committed" =>
                  \A id \in SeqToSet(run[c].unsettledRecords) :
                    usageRecords'[id].settled /\ usageRecords'[id].txHash = run[c].txHash]_vars

\* a run committed its snapshot while a record created during the run, before
\* its transaction landed, stayed unsettled
C16_Witness ==
  \E c \in Callers :
    /\ run[c].pc = "done" /\ run[c].result = "Committed"
    /\ \E id \in 1..settlements[run[c].txHash].created :
         /\ id \notin SeqToSet(run[c].unsettledRecords)
         /\ ~usageRecords[id].settled

\* the custodial account holds less than burnAmount + treasuryAmount of a run
BelowNeeded(r) ==
  Less(UiAmount(custodial, MintDecimals), Add(r.burnAmount, r.treasuryAmount))

\* C17: a run with a non-empty snapshot fails without submitting a transaction
\* and without touching a record when the key is not loaded, the mint or the
\* treasury is not configured, or the custodial account holds less than
\* burnAmount + treasuryAmount; a transaction is submitted only when all four
\* conditions hold.
C17_Preconditions ==
  [][\A c \in Callers :
       /\ ( /\ run[c].pc = "fetch" /\ run'[c].pc # "fetch"
            /\ Unsettled # {}
            /\ ~(config.backendWallet /\ config.tokenMintAddress /\ config.treasuryWalletAddress) )
           => /\ run'[c].pc = "done" /\ run'[c].result = "SettlementFailed"
              /\ UNCHANGED <<settlements, custodial, usageRecords>>
       /\ (run[c].pc = "balance" /\ run'[c].pc # "balance" /\ BelowNeeded(run[c]))
           => /\ run'[c].pc = "done" /\ run'[c].result = "SettlementFailed"
              /\ UNCHANGED <<settlements, custodial, usageRecords>>
       /\ (run'[c] # run[c] /\ settlements' # settlements)
           => /\ config.backendWallet /\ config.tokenMintAddress /\ config.treasuryWalletAddress
              /\ run[c].unsettledRecords # <<>>
              /\ ~BelowNeeded(run[c])
       /\ (run'[c] # run[c] /\ run'[c].pc = "done"
           /\ run[c].pc \in {"fetch", "mint", "balance", "blockhash"})
           => /\ settlements' = settlements
              /\ \A id \in SeqToSet(run'[c].unsettledRecords) : ~usageRecords'[id].settled]_vars

\* a run stopped at the balance check: its records are unsettled and the only
\* transaction on the chain is the one of an earlier run
C17_Witness ==
  \E c \in Callers :
    /\ run[c].pc = "done" /\ run[c].result = "SettlementFailed"
    /\ run[c].unsettledRecords # <<>>
    /\ run[c].error = "Insufficient balance"
    /\ BelowNeeded(run[c])
    /\ Len(settlements) = 1
    /\ ~isSettling
    /\ \A id \in SeqToSet(run[c].unsettledRecords) : ~usageRecords[id].settled

\* C18: while no custodial key is loaded every settlement call that runs
\* (a call that is not skipped behind another run, a check that reaches its
\* threshold) fails, whatever records are unsettled, and no record is settled.
C18_DegradedWithoutKey ==
  ~config.backendWallet =>
    /\ \A c \in Callers :
         (run[c].pc = "done" /\ run[c].result \notin {"Skipped", "BelowThreshold"})
           => run[c].result = "SettlementFailed"
    /\ \A id \in Ids(usageRecords) : ~usageRecords[id].settled
    /\ settlements = <<>>

\* C19: checkAndSettleIfNeeded(threshold) calls executeBatchSettlement exactly
\* when the tokensBurned of all the unsettled records add up to the threshold
\* or more; it returns true when it made the call and false, with nothing
\* changed, when it did not.
C19_CheckAndSettle ==
  [][\A c \in Callers :
       /\ (run[c].pc = "needed" /\ run'[c] # run[c]) =>
            LET pending == SumBurned(SortedUnsettled(usageRecords, Len(usageRecords)),
                                     usageRecords)
                triggered == run'[c].result # "BelowThreshold"
            IN /\ triggered <=> LessEq(run[c].threshold, pending)
               /\ triggered => \/ (run'[c].pc = "fetch" /\ isSettling')
                                \/ (run'[c].result = "Skipped" /\ isSettling)
               /\ ~triggered =>
                    /\ Returned(run'[c]) = "false"
                    /\ UNCHANGED <<usageRecords, settlements, custodial, isSettling, balances>>
       /\ Returned(run'[c]) = "true" =>
            run'[c].result \in {"Committed", "NoRecords", "Skipped"}]_vars

\* C20: with a price in the cache calculateTokenBurn(usdCost) is usdCost / TWAP
\* clamped to [burnFloor, burnCeiling]: within the range, the floor when the
\* raw value is below it, the ceiling when above, the raw value otherwise, and
\* non-decreasing in usdCost; with an empty cache it fails with NoPriceData.
C20_TokenBurn ==
  [][/\ \A p \in Procs :
          (req'[p] # req[p] /\ req'[p].op = "calculateTokenBurn") =>
            LET twap == getTWAPPrice(priceCache, now)
                out == req'[p].tokens
            IN IF priceCache = <<>> THEN req'[p].result = "NoPriceData"
               ELSE LET raw == Div(req'[p].usdCost, twap)
                    IN /\ req'[p].result = "ok"
                       /\ Less(Zero, twap)
                       /\ LessEq(burnFloor, out)
                       /\ LessEq(out, burnCeiling)
                       /\ Less(raw, burnFloor) => out = burnFloor
                       /\ Less(burnCeiling, raw) => out = burnCeiling
                       /\ (LessEq(burnFloor, raw) /\ LessEq(raw, burnCeiling)) => out = raw
     /\ priceCache # <<>> =>
          \A u1, u2 \in UsdInputs :
            LessEq(u1, u2) => ~Less(calculateTokenBurn(u2, priceCache, now).tokens,
                                    calculateTokenBurn(u1, priceCache, now).tokens)]_vars

\* a cost priced between the floor and the ceiling, at the mean of two samples
C20_Witness ==
  \E p \in Procs :
    /\ req[p].op = "calculateTokenBurn" /\ req[p].result = "ok"
    /\ Len(priceCache) = 2 /\ priceCache[1].price # priceCache[2].price
    /\ Less(burnFloor, req[p].tokens)
    /\ Less(req[p].tokens, burnCeiling)

\* the newest sample of the cache as a price
Newest(cache) == cache[Len(cache)].price

\* the samples of the cache whose age at time t is within the TWAP window
Recent(cache, t) == SelectSeq(cache, LAMBDA e : t - e.timestamp <= twapWindowMs)

\* the samples 1.00, 1.10 and 1.20 were taken one minute apart and are within
\* the window
Example(cache, t) ==
  /\ Len(cache) = 3
  /\ <<cache[1].price, cache[2].price, cache[3].price>> = <<Usd(100), Usd(110), Usd(120)>>
  /\ cache[2].timestamp = cache[1].timestamp + 60000
  /\ cache[3].timestamp = cache[2].timestamp + 60000
  /\ t - cache[1].timestamp <= twapWindowMs

\* getTWAPPrice returns the mean of the samples within the window (their sum,
\* added in the order of the cache, divided by their number), the newest
\* sample when none is within the window, fails only on an empty cache, and
\* leaves the cache as it is; for the three samples of the example it
\* returns the given price
TwapMean(example) ==
  \A p \in SeqProcs :
    (ops' # ops /\ req'[p].op = "getTWAPPrice") =>
      LET recent == Recent(priceCache, now)
          out == req'[p].price
      IN /\ priceCache' = priceCache
         /\ (req'[p].result = "NoPriceData") <=> (priceCache = <<>>)
         /\ priceCache # <<>> =>
              /\ req'[p].result = "ok"
              /\ IF recent = <<>>
                   THEN out = priceCache[Len(priceCache)].price
                   ELSE out = Div(Total([i \in 1..Len(recent) |-> recent[i].price]),
                                  Num(Len(recent)))
         /\ Example(priceCache, now) => out = example

\* C21 as stated: getTWAPPrice returns the arithmetic mean of the cached
\* samples whose age is within the TWAP window, and 1.00, 1.10 and 1.20 taken
\* one minute apart give 1.10; the newest sample when none is within the
\* window; it fails only on an empty cache and leaves the cache as it is.
C21_TwapMean == [][TwapMean(Usd(110))]_vars

\* (1.00 + 1.10 + 1.20) / 3 as the doubles give it: 3.3 / 3,
\* which is 1.0999999999999999, the double next below 1.10
ExampleMean == Div(Add(Add(Usd(100), Usd(110)), Usd(120)), Num(3))

\* C21 amended: the mean is computed in double arithmetic, so 1.00, 1.10 and
\* 1.20 taken one minute apart give 1.0999999999999999, the double next below
\* 1.10; the rest is as stated.
C21_TwapMeanAmended ==
  /\ [][TwapMean(ExampleMean)]_vars
  /\ [](Less(ExampleMean, Usd(110)) /\ Less(Sub(Usd(110), ExampleMean), Dec(1, 9)))

\* the average of 1.00, 1.10 and 1.20 taken one minute apart was read
C21_Witness ==
  \E p \in SeqProcs :
    /\ req[p].op = "getTWAPPrice" /\ req[p].result = "ok"
    /\ Example(priceCache, now)
    /\ <<priceCache[1].timestamp, priceCache[2].timestamp, priceCache[3].timestamp>>
         = <<0, 60000, 120000>>
    /\ now = 120000
    /\ req[p].price = ExampleMean

\* C22: a fetch whose query answers appends the sample and prunes every sample
\* older than twice the TWAP window, so no cached sample is older than that
\* right after it; a fetch whose query fails returns the newest cached sample
\* whatever its age and leaves the cache as it is, and fails only when the
\* cache is empty.
C22_FetchCurrentPrice ==
  [][\A p \in SeqProcs :
       (ops' # ops /\ req'[p].op = "fetchCurrentPrice") =>
         LET r == req'[p]
             kept == SelectSeq(priceCache, LAMBDA e : now - e.timestamp <= 2 * twapWindowMs)
         IN IF r.query = "answered"
              THEN /\ r.result = "ok"
                   /\ priceCache' = Append(kept, [price |-> r.price, timestamp |-> now])
                   /\ \A i \in DOMAIN priceCache' :
                        now - priceCache'[i].timestamp <= 2 * twapWindowMs
              ELSE /\ priceCache' = priceCache
                   /\ IF priceCache = <<>> THEN r.result = "PriceUnavailable"
                      ELSE r.result = "ok" /\ r.price = Newest(priceCache)]_vars

\* a failed query answered from a sample older than twice the window
C22_Witness ==
  \E p \in SeqProcs :
    /\ req[p].op = "fetchCurrentPrice" /\ req[p].query = "failed" /\ req[p].result = "ok"
    /\ priceCache # <<>>
    /\ now - priceCache[Len(priceCache)].timestamp > 2 * twapWindowMs
    /\ req[p].price = Newest(priceCache)

\* C23: getCachedPrice returns the newest sample only while its age is below
\* the freshness window of 60 s and null otherwise, a sample whose age equals
\* the window included; it leaves the cache as it is.
C23_CachedPriceFresh ==
  [][\A p \in SeqProcs :
       (ops' # ops /\ req'[p].op = "getCachedPrice") =>
         /\ priceCache' = priceCache
         /\ IF priceCache # <<>> /\ now - priceCache[Len(priceCache)].timestamp < cacheExpiryMs
              THEN req'[p].result = "ok" /\ req'[p].price = Newest(priceCache)
              ELSE req'[p].result = "null" /\ req'[p].price = NoPrice]_vars

\* the transaction exists, succeeded and transfers to the recipient
Received(transaction, recipient) ==
  /\ transaction # Thrown
  /\ transaction.found /\ ~transaction.err
  /\ transaction.shape \in {"transfer", "transferChecked", "balances"}
  /\ transaction.to = recipient

\* the raw amount of the transfer divided by 10 to the asset's decimal count
TrueAmount(transaction) == Div(Num(transaction.raw), Num(Pow10(transaction.decimals)))

\* the checks of the asset id and of the sender pass, or are not asked for
OtherChecksPass(c) ==
  /\ Received(c.transaction, c.expectedRecipient)
  /\ c.expectedTokenMint # Null => c.transaction.mint = c.expectedTokenMint
  /\ c.expectedSender # Null =>
       /\ c.transaction.shape \in {"transfer", "transferChecked"}
       /\ c.transaction.authority = c.expectedSender

\* C24: with an expected amount and all other checks passing, the transaction is
\* accepted exactly when its transfer amount, normalized by the asset's
\* decimals, is within the tolerance of the expected amount, and the amount
\* returned on acceptance is that normalized amount.
C24_AmountTolerance ==
  \A p \in SeqProcs :
    (/\ req[p].op = "verifyDepositTransaction" /\ req[p].pc = "done"
     /\ req[p].call.expectedAmount # NoAmount
     /\ OtherChecksPass(req[p].call)) =>
      LET c == req[p].call
          actual == TrueAmount(c.transaction)
      IN /\ c.verification.isValid
            <=> LessEq(Abs(Sub(actual, c.expectedAmount)), tolerance)
         /\ c.verification.isValid => c.verification.actualAmount = actual

\* C25: a transaction is reported valid only if it exists, succeeded, transfers
\* to the expected recipient, moves the expected asset when one is named and
\* is authorized by the expected sender when one is named; every other call,
\* an exception of the fetch included, returns isValid = false with a reason.
C25_FailsClosed ==
  \A p \in SeqProcs :
    (req[p].op = "verifyDepositTransaction" /\ req[p].pc = "done") =>
      LET c == req[p].call
      IN /\ req[p].result = "returned"
         /\ c.verification.isValid =>
              /\ Received(c.transaction, c.expectedRecipient)
              /\ c.expectedTokenMint # Null => c.transaction.mint = c.expectedTokenMint
              /\ c.expectedSender # Null => c.transaction.authority = c.expectedSender
         /\ ~c.verification.isValid => c.verification.error # Null

\* C26: for every transfer shape and every decimal count, the amount returned
\* with an accepted transfer is its raw amount divided by 10 to the power of
\* the asset's own decimal count.
C26_NormalizedByDecimals ==
  \A p \in SeqProcs :
    (/\ req[p].op = "verifyDepositTransaction" /\ req[p].pc = "done"
     /\ req[p].call.verification.isValid
     /\ Received(req[p].call.transaction, req[p].call.expectedRecipient)) =>
      req[p].call.verification.actualAmount = TrueAmount(req[p].call.transaction)

\* the public fallback endpoints
Fallbacks == {fallbackUrls[i] : i \in DOMAIN fallbackUrls}

\* C27: when the primary endpoint is configured, the service never holds a
\* handle to a public fallback endpoint, never probes one and never returns
\* one, whatever the failures, health probes and reconnects before.
C27_PrimaryOnly ==
  solanaConnection.useOnlyConfiguredRpc =>
    /\ solanaConnection.connection \notin Fallbacks
    /\ solanaConnection.rpcUrl \notin Fallbacks
    /\ \A c \in ConnCallers :
         /\ conn[c].returned \notin Fallbacks
         /\ conn[c].handle \notin Fallbacks
         /\ \A k \in DOMAIN conn[c].probes : conn[c].probes[k].url \notin Fallbacks

\* the configured endpoint failed the four attempts of the constructor, the
\* health monitor reconnected to it later and a caller was handed its handle
C27_Witness ==
  /\ solanaConnection.useOnlyConfiguredRpc
  /\ conn["constructor"].result = "ConfiguredRpcFailed"
  /\ conn["monitor"].pc = "done" /\ conn["monitor"].result = "true"
  /\ conn["monitor"].last.result = "ok"
  /\ conn["verifier"].returned = Primary

\* the probes of a finished initializeConnection without a configured
\* endpoint: the default endpoint, then the fallback list in its order up to
\* the first success, which is adopted, or to its end, which is the failure
InListOrder(l) ==
  LET n == Len(l.probes)
  IN /\ n >= 1
     /\ l.probes[1].url = fallbackUrls[1]
     /\ IF l.probes[1].ok THEN n = 1 /\ l.result = "ok"
        ELSE /\ n >= 2
             /\ n <= Len(fallbackUrls) + 1
             /\ \A k \in 2..n : l.probes[k].url = fallbackUrls[k - 1]
             /\ \A k \in 2..(n - 1) : ~l.probes[k].ok
             /\ IF l.probes[n].ok
                  THEN l.result = "ok" /\ l.adopted = l.probes[n].url
                  ELSE n = Len(fallbackUrls) + 1 /\ l.result = "AllEndpointsUnreachable"

\* C28: without a configured primary endpoint a failed connection attempt
\* probes the fallback endpoints in list order and adopts the first one whose
\* probe succeeds, probing none after it; when all of them fail the call
\* fails with AllEndpointsUnreachable; and every initializeConnection ends.
C28_FallbackOrder ==
  /\ [](~solanaConnection.useOnlyConfiguredRpc =>
          \A c \in ConnCallers : conn[c].last # NoInit => InListOrder(conn[c].last))
  /\ \A c \in ConnCallers :
       (conn[c].pc \in {"init", "delay", "fallback"}) ~> (conn[c].pc \in {"verify", "done"})

\* the default endpoint and the first two fallbacks failed, the third was adopted
C28_Witness ==
  /\ ~solanaConnection.useOnlyConfiguredRpc
  /\ \E c \in ConnCallers :
       /\ conn[c].last.result = "ok"
       /\ Len(conn[c].last.probes) = 4
       /\ conn[c].last.adopted = fallbackUrls[3]
       /\ solanaConnection.connection = fallbackUrls[3]

\* C29: the handle that getConnectionHealthy returns is one that a probe of
\* that call succeeded on, and the last probe of that call on it did not fail;
\* otherwise the call fails with Unreachable.
C29_HealthyHandle ==
  [][\A c \in ConnCallers :
       (conn[c].pc \in {"health", "init", "fallback"} /\ conn[c].healthy = Null
        /\ conn'[c].healthy # Null) =>
         \/ conn'[c].healthy = "Unreachable"
         \/ /\ conn'[c].healthy = "returned"
            /\ LET ps == conn'[c].probes
                   h == conn'[c].returned
               IN \E k \in DOMAIN ps :
                    /\ ps[k].url = h /\ ps[k].ok
                    /\ \A j \in DOMAIN ps : (j > k /\ ps[j].url = h) => ps[j].ok]_vars

\* C30: getBalance reads the wallet's record or creates it zeroed: no step of
\* it changes an existing record or another wallet's, and every call, also
\* one of two first-time calls for the same wallet that interleave, ends
\* without failing, with the one record of the wallet in the store.
C30_ReadOrCreate ==
  [][\A p \in Procs :
       (req[p].op = "getBalance" /\ req[p].pc \in {"findOne", "create"} /\ req'[p] # req[p]) =>
         LET w == req[p].walletAddress
         IN /\ \A v \in Wallets : v # w => balances'[v] = balances[v]
            /\ balances[w] # NoDoc => balances'[w] = balances[w]
            /\ balances[w] = NoDoc => balances'[w] \in {NoDoc, ZeroDoc}
            /\ req'[p].pc = "done" =>
                 /\ req'[p].result = "ok"
                 /\ balances'[w] # NoDoc]_vars

\* the wallet of the scenario
W == "W1"

\* the scenario's steps for the chat that costs $0.02 at a TWAP of $0.10, with
\* the given burn of the chat and the given tokens of the burn and of the
\* transfer of the settlement: the balance after the deposit of T10, the burn
\* and the balance after the chat, and the settlement run over the single
\* record of that chat
ScenarioWith(burn, half) ==
  LET doc == ViewOf(balances[W])
      deposited == Num(10)
  IN /\ (CountDeposits(doc.transactions, "T10") = 1 /\ Len(doc.transactions) = 1)
          => doc.currentBalance = deposited
     /\ \A id \in Ids(usageRecords) :
          (usageRecords[id].usdCost = Usd(2) /\ usageRecords[id].tokenPrice = Usd(10))
            => usageRecords[id].tokensBurned = burn
     /\ (CountDeposits(doc.transactions, "T10") = 1 /\ Len(doc.transactions) = 2)
          => doc.currentBalance = Sub(deposited, burn)
     /\ \A c \in Callers :
          (run[c].result = "Committed" /\ Len(run[c].unsettledRecords) = 1) =>
            LET id == run[c].unsettledRecords[1]
            IN /\ usageRecords[id].tokensBurned = burn
               /\ run[c].burnAmount = half /\ run[c].treasuryAmount = half
               /\ usageRecords[id].settled /\ usageRecords[id].txHash = run[c].txHash

\* a deposit request that names T10 once T10 is in a log is rejected and
\* changes no wallet
ReplayRejected ==
  \A p \in Procs :
    (/\ req[p].pc = "dupCheck" /\ req'[p] # req[p]
     /\ TxHashRecorded(req[p].txHash))
    => (/\ req'[p].pc = "done" /\ req'[p].result = "DuplicateTransaction"
        /\ balances' = balances)

\* C31 as stated: W starts at 0; the deposit of 10 tokens through T1 gives a
\* balance of 10; the chat costing $0.02 at TWAP $0.10 burns the floor, 0.05,
\* and leaves 9.95; a replay of the deposit is rejected; the settlement run
\* over the single record burns 0.025, transfers 0.025 and marks it settled.
C31_Scenario ==
  /\ []ScenarioWith(burnFloor, Dec(25, 3))
  /\ [][ReplayRejected]_vars

\* 0.02 / 0.10 as the doubles give it: 0.19999999999999998
ScenarioBurn == Div(Usd(2), Usd(10))

\* C31 amended: the chat costing $0.02 at TWAP $0.10 burns 0.02 / 0.10 token,
\* which the doubles give as 0.19999999999999998 (above the floor, so the
\* clamp leaves it), and leaves 9.8; the settlement run over the single record
\* burns and transfers half of it each and marks it settled; the deposit
\* gives 10 and its replay is rejected.
C31_ScenarioAmended ==
  /\ []ScenarioWith(ScenarioBurn, Div(ScenarioBurn, Num(2)))
  /\ [](/\ Less(burnFloor, ScenarioBurn)
        /\ Less(ScenarioBurn, Dec(2, 1))
        /\ Sub(Num(10), ScenarioBurn) = Dec(98, 1))
  /\ [][ReplayRejected]_vars

\* the scenario has run: deposit, chat, settlement of the single record, and
\* the replay of the deposit has just been rejected
C31_Witness ==
  /\ balances[W] # NoDoc
  /\ balances[W].depositedAmount = Num(10)
  /\ Len(balances[W].transactions) = 2
  /\ Len(usageRecords) = 1 /\ usageRecords[1].settled
  /\ run["timer"].result = "Committed" /\ Len(run["timer"].unsettledRecords) = 1
  /\ \E p \in Procs : req[p].result = "DuplicateTransaction" /\ req[p].txHash = Null
                         /\ req[p].walletAddress = W

DepositOps == {"deposit", "depositPay", "depositScan"}

\* whether the chain's answer for a transaction passes the checks of the
\* verifier for a request of a deposit route by a wallet with an amount
Passes ==
  [op \in DepositOps |-> [txHash \in TxIds |-> [w \in Wallets |-> [amount \in CallerAmounts |->
     CASE op = "deposit" ->
            verifyTransaction(Chain[txHash], w, amount, TokenMint, Null).isValid
       [] op = "depositPay" ->
            verifyTransaction(Chain[txHash], TreasuryAta, amount, TokenMint, w).isValid
       [] OTHER ->
            verifyTransaction(Chain[txHash], w, NoAmount, TokenMint, Null).isValid]]]]

\* the chain's answer for the transaction a deposit request names passes the
\* verifier's checks for that request
PassesVerifier(r) == Passes[r.op][r.txHash][r.walletAddress][r.amount]

\* C32: on every deposit path recordDeposit is invoked for a transaction id
\* only after the verifier has returned isValid = true for that id and the
\* duplicate check has found no ledger entry that references it; a request
\* whose verification fails, or whose duplicate check finds its txHash
\* recorded, ends without changing a balance.
C32_VerifiedBeforeRecorded ==
  [][\A p \in Procs :
       LET r == req[p]
       IN /\ (/\ req'[p].op \in DepositOps
               /\ req'[p].pc = "findOne" /\ r.pc # "findOne")
              => /\ r.op = req'[p].op /\ r.txHash = req'[p].txHash
                 /\ PassesVerifier(req'[p])
                 /\ IF r.op = "depositScan" THEN r.pc = "verify"
                    ELSE r.pc = "dupCheck" /\ ~TxHashRecorded(r.txHash)
          /\ (req'[p].pc = "verify" /\ req'[p] # r)
              => /\ r.pc = "dupCheck" /\ r.op = "depositScan" /\ r.txHash = req'[p].txHash
                 /\ ~TxHashRecorded(r.txHash)
          /\ (req'[p].op \in {"deposit", "depositPay"} /\ req'[p].pc = "dupCheck")
              => PassesVerifier(req'[p])
          /\ (req'[p].op \in DepositOps /\ req'[p].pc \in {"create", "save"})
              => r.pc \in {"findOne", "create", "save"} /\ PassesVerifier(req'[p])
          /\ (r.op \in DepositOps /\ req'[p] # r /\ balances' # balances)
              => r.pc \in {"create", "save"}
          /\ (/\ req'[p] # r
               /\ \/ r.pc = "dupCheck" /\ TxHashRecorded(r.txHash)
                  \/ r.pc = "verify" /\ ~PassesVerifier(r))
              => /\ balances' = balances
                 /\ req'[p].pc \in {"done", "dupCheck"}
                 /\ req'[p].pc = "dupCheck" => req'[p].sigs = Tail(r.sigs)
          /\ (r.pc \in {"idle", "done"} /\ req'[p].op \in DepositOps /\ req'[p] # r)
              => balances' = balances]_vars

\* a deposit was recorded, its replay was rejected by the duplicate check and
\* a request that names a transaction to another wallet failed verification
C32_Witness ==
  /\ \E w \in Wallets : balances[w] # NoDoc /\ Less(Zero, balances[w].depositedAmount)
  /\ \E p, q \in Procs :
       /\ req[p].result = "DuplicateTransaction"
       /\ req[q].result = "VerificationFailed"
\* a list of record ids is what a query with this limit has to return: only
\* unsettled records, none twice, at most limit of them, oldest first, and
\* none of the unsettled records it leaves out is older than one it returns
OldestUnsettled(ids, records, limit) ==
  /\ Len(ids) <= limit
  /\ \A k \in 1..Len(ids) : ids[k] \in 1..Len(records) /\ ~records[ids[k]].settled
  /\ Cardinality(SeqToSet(ids)) = Len(ids)
  /\ \A k \in 1..(Len(ids) - 1) : records[ids[k]].timestamp <= records[ids[k + 1]].timestamp
  /\ \A i \in {x \in 1..Len(records) : ~records[x].settled} \ SeqToSet(ids) :
       /\ Len(ids) = limit
       /\ records[ids[Len(ids)]].timestamp <= records[i].timestamp

\* C33: getUnsettledRecords(limit) returns only unsettled records, at most
\* limit of them, oldest first, and they are the oldest unsettled ones; a
\* settlement run settles records of its batch only, at most the batch size
\* of them, and never a record that is newer than an unsettled record which
\* was left out of its batch.
C33_OldestFirst ==
  [][/\ \A p \in Procs :
          (req'[p] # req[p] /\ req'[p].op = "getUnsettledRecords")
            => OldestUnsettled(req'[p].call.records, usageRecords, req'[p].call.limit)
     /\ \A c \in Callers :
          /\ (run[c].pc = "fetch" /\ run'[c] # run[c])
                => OldestUnsettled(run'[c].unsettledRecords, usageRecords, BatchSize)
          /\ (run[c].pc = "mark" /\ run'[c] # run[c])
                => LET marked == {i \in Ids(usageRecords) :
                                    usageRecords'[i].settled /\ ~usageRecords[i].settled}
                   IN /\ Cardinality(marked) <= BatchSize
                      /\ marked \subseteq SeqToSet(run[c].unsettledRecords)
                      /\ \A i \in Unsettled \ SeqToSet(run[c].unsettledRecords), j \in marked :
                           usageRecords[j].timestamp <= usageRecords[i].timestamp]_vars

\* a run has settled a full batch of records that were stored out of the order
\* of their timestamps, and newer records still wait
C33_Witness ==
  \E c \in Callers :
    /\ run[c].result = "Committed"
    /\ Len(run[c].unsettledRecords) = BatchSize
    /\ usageRecords[1].timestamp > usageRecords[2].timestamp
    /\ \A k \in 1..BatchSize : usageRecords[run[c].unsettledRecords[k]].settled
    /\ \E i \in Ids(usageRecords) : ~usageRecords[i].settled
\* record b is record a but for its settled flag and its txHash
SameButSettlement(a, b) == b = [a EXCEPT !.settled = b.settled, !.txHash = b.txHash]

\* C34: settlement changes only the settled flag and the txHash of the records
\* it marks: a step of a settlement call leaves every wallet balance (amounts
\* and entry log) as it is, removes and adds no usage record, leaves
\* walletAddress, requestType, usdCost, tokensBurned and tokenPrice of every
\* record as they are, and leaves the records outside the marked id list
\* unchanged; markAsSettled on any id list does the same.
C34_SettlementFrame ==
  [][/\ \A c \in Callers :
          run'[c] # run[c] =>
            /\ balances' = balances
            /\ Len(usageRecords') = Len(usageRecords)
            /\ \A id \in Ids(usageRecords) :
                 /\ SameButSettlement(usageRecords[id], usageRecords'[id])
                 /\ usageRecords'[id] # usageRecords[id] =>
                       /\ run[c].pc = "mark"
                       /\ id \in SeqToSet(run[c].unsettledRecords)
     /\ \A n \in 0..Len(usageRecords), txHash \in Signatures :
          LET recordIds == [i \in 1..n |-> i]
              after == markAsSettled(usageRecords, recordIds, txHash)
          IN /\ Len(after) = Len(usageRecords)
             /\ \A id \in Ids(usageRecords) :
                  /\ SameButSettlement(usageRecords[id], after[id])
                  /\ id > n => after[id] = usageRecords[id]]_vars

\* a run has settled the record of one debit while the record of a later debit
\* waits, and the wallet carries both debits
C34_Witness ==
  \E c \in Callers, i, j \in Ids(usageRecords) :
    /\ run[c].result = "Committed"
    /\ usageRecords[i].settled /\ ~usageRecords[j].settled
    /\ i # j
    /\ balances["W1"].consumedAmount
         = Add(usageRecords[i].tokensBurned, usageRecords[j].tokensBurned)
\* the sum of the amounts of the entries of a log, added in their order
SumAmounts(log) == Total([i \in 1..Len(log) |-> log[i].amount])

\* the first log is a prefix of the second
IsPrefix(a, b) == Len(a) <= Len(b) /\ SubSeq(b, 1, Len(a)) = a

\* C35: for every wallet, in every reachable state, under concurrent deposits
\* and debits too, currentBalance is the sum of the amounts of the entries of
\* its log, deposit entries carry a positive amount and usage entries a
\* negative one, and the log only grows by appending.
C35_BalanceIsLogSum ==
  /\ [](\A w \in Wallets :
          LET doc == ViewOf(balances[w])
          IN /\ doc.currentBalance = SumAmounts(doc.transactions)
             /\ \A i \in 1..Len(doc.transactions) :
                  IF doc.transactions[i].type = "deposit"
                    THEN Less(Zero, doc.transactions[i].amount)
                    ELSE Less(doc.transactions[i].amount, Zero))
  /\ [][\A w \in Wallets :
          IsPrefix(ViewOf(balances[w]).transactions, ViewOf(balances'[w]).transactions)]_vars
\* C36: depositedAmount and consumedAmount are lifetime sums that never
\* decrease, whatever amount the caller of a deposit route supplies and
\* whatever amount the verifier derives (a negative balance delta included),
\* and recordDeposit is never applied with an amount that is not positive.
C36_LifetimeSums ==
  [][/\ \A w \in Wallets :
          /\ LessEq(ViewOf(balances[w]).depositedAmount, ViewOf(balances'[w]).depositedAmount)
          /\ LessEq(ViewOf(balances[w]).consumedAmount, ViewOf(balances'[w]).consumedAmount)
     /\ \A p \in Procs :
          (req[p].op \in DepositOps /\ req[p].pc = "save" /\ req'[p] # req[p])
            => Less(Zero, req[p].credit)]_vars
\* C37: every usage record is eventually settled, provided settlement runs
\* keep being triggered and the submission and the store eventually succeed:
\* again and again no record is left unsettled, whatever runs failed before,
\* however many records waited (more than a batch) and whatever debits arrived.
C37_EventuallySettled == []<>(Unsettled = {})

\* a queue longer than a batch and the record of a debit that arrived later
\* are settled, by three transactions, after a transaction was lost
C37_Witness ==
  /\ Len(usageRecords) > BatchSize + 2
  /\ Unsettled = {}
  /\ Len(settlements) > 2
\* the settlement transaction a record's txHash names
SettlementOf(id) == settlements[usageRecords[id].txHash]

\* C38: in every reachable state a usage record has a txHash exactly when it
\* is settled, and that txHash is the signature of a settlement transaction
\* that landed on chain, that pays for the record (the record is in its id
\* list) and whose burn and transfer are each the base units of half the
\* tokensBurned of the records of its id list, this record's included.
C38_TxHashIffSettled ==
  \A id \in Ids(usageRecords) :
    /\ usageRecords[id].txHash # NoSignature <=> usageRecords[id].settled
    /\ usageRecords[id].settled =>
         /\ usageRecords[id].txHash \in 1..Len(settlements)
         /\ SettlementOf(id).signature = usageRecords[id].txHash
         /\ id \in SeqToSet(SettlementOf(id).recordIds)
         /\ LET paid == Total([k \in 1..Len(SettlementOf(id).recordIds) |->
                                 usageRecords[SettlementOf(id).recordIds[k]].tokensBurned])
                units == Floor(Mul(Div(paid, Num(2)), Num(Pow10(SettlementOf(id).decimals))))
            IN /\ SettlementOf(id).burn = units
               /\ SettlementOf(id).transfer = units
               /\ LessEq(usageRecords[id].tokensBurned, paid)

\* a transaction landed without marking anything, a later one settled a record
\* of a positive amount, and another record still waits without a txHash
C38_Witness ==
  /\ \E id \in Ids(usageRecords) :
       /\ usageRecords[id].settled
       /\ usageRecords[id].txHash > 1
       /\ Less(Zero, usageRecords[id].tokensBurned)
  /\ \E id \in Ids(usageRecords) :
       ~usageRecords[id].settled /\ usageRecords[id].txHash = NoSignature

\* the positions of a request inside getBalance, recordDeposit, deductTokens
\* and hasSufficientBalance
LedgerPcs == {"findOne", "create", "save", "usage"}

\* what a ledger step makes of the request r and of the document doc of r's
\* wallet, given the price cache and the clock: <<request, document>>. Nothing
\* of another wallet and of another request is an argument.
LedgerStep(r, doc, cache, t) ==
  CASE r.pc = "findOne" ->
         <<IF doc = NoDoc THEN [r EXCEPT !.pc = "create"] ELSE afterGetBalance(r, doc), doc>>
    [] r.pc = "create" ->
         IF doc # NoDoc THEN <<Done(r, "StoreError"), doc>>
         ELSE <<afterGetBalance(r, ZeroDoc), ZeroDoc>>
    [] r.pc = "save" /\ r.op = "deductTokens" ->
         IF ~Valid(debitDoc(r.balance, r.amount)) THEN <<Done(r, "ValidationError"), doc>>
         ELSE <<IF getTWAPPrice(cache, t) = NoPrice THEN Done(r, "NoPriceData")
                ELSE [r EXCEPT !.pc = "usage",
                               !.record = NewUsageRecord(r, getTWAPPrice(cache, t), t)],
                Save(doc, r.balance, debitDoc(r.balance, r.amount),
                     [type |-> "usage", amount |-> Neg(r.amount), txHash |-> Null])>>
    [] r.pc = "save" /\ r.op # "deductTokens" ->
         IF ~Valid(creditDoc(r.balance, r.credit)) THEN <<Done(r, "ValidationError"), doc>>
         ELSE <<IF r.op = "depositScan" THEN NextSignature(r) ELSE Done(r, "ok"),
                Save(doc, r.balance, creditDoc(r.balance, r.credit),
                     [type |-> "deposit", amount |-> r.credit, txHash |-> r.txHash])>>
    [] r.pc = "usage" -> <<Done(r, "ok"), doc>>

\* C39: the ledger operations are isolated per wallet. A step of getBalance,
\* recordDeposit, deductTokens or hasSufficientBalance on wallet A leaves the
\* document (amounts and entry log) of every other wallet and the request of
\* every other client as they are, whatever those clients are doing; and what
\* the step returns and writes is a function of its own request and of A's
\* document (and of the price cache and the clock), so it does not depend on
\* the operations on other wallets.
C39_WalletIsolation ==
  [][\A p \in Procs :
       (req[p].pc \in LedgerPcs /\ req'[p] # req[p]) =>
         LET A == req[p].walletAddress
             out == LedgerStep(req[p], balances[A], priceCache, now)
         IN /\ \A B \in Wallets \ {A} : balances'[B] = balances[B]
            /\ \A q \in Procs \ {p} : req'[q] = req[q]
            /\ req'[p] = out[1]
            /\ balances'[A] = out[2]]_vars

\* one client has debited W2 and is about to record the usage while the deposit
\* of another client is between its read and its save of W1's document
C39_Witness ==
  /\ req[1].op = "deductTokens" /\ req[1].pc = "usage" /\ req[1].walletAddress = "W2"
  /\ req[2].op \in DepositOps /\ req[2].pc = "save" /\ req[2].walletAddress = "W1"
  /\ balances["W2"].transactions # <<>>
====
